---- MODULE Spec2Model ----
(***************************************************************************)
(* Presentation processing pipeline of gemini-powerpoint-sage:             *)
(*   - RetryStrategy.execute            (utils/error_handling.py)          *)
(*   - restore_vba_project              (utils/pptx_utils.py)              *)
(*   - PresentationProcessor.process    (services/presentation_processor)  *)
(* Each part is a state machine over its own group of variables; a         *)
(* specification runs one part and leaves the other groups idle.           *)
(***************************************************************************)
EXTENDS Integers, Sequences, FiniteSets, TLC

None == "None"

\* Python's None where the other values are tuples
NoResult == <<>>

RECURSIVE Pow(_, _)
Pow(b, e) == IF e = 0 THEN 1 ELSE b * Pow(b, e - 1)

(***************************************************************************)
(* Part 1: RetryStrategy.execute and its caller in NotesGenerator          *)
(***************************************************************************)
VARIABLES
    max_retries,         \* RetryStrategy.max_retries
    base_delay,          \* RetryStrategy.base_delay (in time units)
    backoff_multiplier,  \* RetryStrategy.backoff_multiplier
    exceptions,          \* RetryStrategy.exceptions: the exception types caught
    caller,              \* who built the strategy: a direct user or NotesGenerator
    attempt,             \* loop variable of execute
    call_count,          \* number of invocations of func
    sleeps,              \* durations passed to asyncio.sleep, in order
    outcomes,            \* what each invocation of func did, in order
    rpc,                 \* position of execute: running, returned, raised
    result,              \* value returned by execute
    notes_out            \* value returned by _generate_with_supervisor

retryVars == <<max_retries, base_delay, backoff_multiplier, exceptions, caller,
               attempt, call_count, sleeps, outcomes, rpc, result, notes_out>>

\* bounds of the retry model
MaxRetriesBound == 4
MaxBaseDelay == 2
MaxMultiplier == 3

\* ProcessingConfig defaults
MAX_RETRIES == 3
RETRY_DELAY == 2
RETRY_BACKOFF_MULTIPLIER == 2

\* exception types an operation may raise; all of them derive from Exception
ExcTypes == {"ValueError", "TypeError", "SlideProcessingError"}

\* exceptions=(Exception,) catches every type; a custom tuple catches its members
ExceptionSets == {ExcTypes, {"ValueError"}}

\* what one invocation of func does: returns a value or raises
OpOutcomes == {"ok"} \cup ExcTypes

\* the value a successful operation returns (_run_supervisor: (text, status))
OkValue == <<"notes text", "success">>

RetryIdle ==
    /\ max_retries = 0 /\ base_delay = 0 /\ backoff_multiplier = 0
    /\ exceptions = {} /\ caller = "idle" /\ attempt = 0 /\ call_count = 0
    /\ sleeps = <<>> /\ outcomes = <<>> /\ rpc = "idle" /\ result = NoResult
    /\ notes_out = NoResult

\* RetryStrategy.__init__ followed by the entry of execute
RetryStart(c, m, b, k, ex) ==
    /\ max_retries = m /\ base_delay = b /\ backoff_multiplier = k
    /\ exceptions = ex /\ caller = c
    /\ attempt = 0 /\ call_count = 0 /\ sleeps = <<>> /\ outcomes = <<>>
    /\ rpc = "running" /\ result = NoResult /\ notes_out = NoResult

\* wait_time = base_delay * (backoff_multiplier ** attempt)
WaitTime(b, k, a) == b * Pow(k, a)

\* a faulty variant that also sleeps after the last attempt
SleepsAfterMutant(a, m) == a < m
\* if attempt < self.max_retries - 1: sleep, else only log
SleepsAfter(a, m) == a < m - 1

\* except self.exceptions as e
Catches(ex, e) == e \in ex

\* a faulty loop that gives up one attempt early
LoopContinuesOneLess(a, m) == a + 2 < m
\* for attempt in range(self.max_retries): another iteration follows attempt a
LoopContinues(a, m) == a + 1 < m

\* one iteration of "for attempt in range(self.max_retries)"
RetryAttempt(o) ==
    /\ rpc = "running"
    /\ attempt < max_retries
    /\ call_count' = call_count + 1
    /\ outcomes' = Append(outcomes, o)
    /\ IF o = "ok"
       THEN /\ result' = OkValue
            /\ rpc' = "returned"
            /\ UNCHANGED <<attempt, sleeps>>
       ELSE IF Catches(exceptions, o)
       THEN /\ sleeps' = IF SleepsAfter(attempt, max_retries)
                         THEN Append(sleeps, WaitTime(base_delay, backoff_multiplier, attempt))
                         ELSE sleeps
            /\ attempt' = attempt + 1
            /\ rpc' = IF LoopContinues(attempt, max_retries)
                      THEN "running" ELSE "returned"
            /\ result' = NoResult
       ELSE /\ rpc' = "raised"
            /\ UNCHANGED <<attempt, sleeps, result>>
    /\ UNCHANGED <<max_retries, base_delay, backoff_multiplier, exceptions,
                   caller, notes_out>>

\* NotesGenerator._generate_with_supervisor after retry_strategy.execute
GenerateWithSupervisorReturn ==
    /\ caller = "notes_generator"
    /\ rpc = "returned"
    /\ notes_out = NoResult
    /\ notes_out' = IF result # NoResult THEN result ELSE <<"", "error">>
    /\ UNCHANGED <<max_retries, base_delay, backoff_multiplier, exceptions,
                   caller, attempt, call_count, sleeps, outcomes, rpc, result>>

(***************************************************************************)
(* Part 2: restore_vba_project (placeholder variables, defined below)      *)
(***************************************************************************)
VARIABLES
    srcReadable,   \* original_src opens as a zip archive
    srcMacro,      \* bytes of ppt/vbaProject.bin in original_src ("absent": no entry)
    genFile,       \* the archive at generated_pptx, Absent when the file does not exist
    finalFile,     \* the archive at final_path, Absent when the file does not exist
    tmpTree,       \* the scratch directory's tree, Absent when it does not exist
    vba_data,      \* local vba_data
    apc,           \* position of restore_vba_project
    pending,       \* an exception is in flight through the finally block
    failedAt,      \* first step that failed, None when no step has failed
    faults,        \* number of steps that have failed
    genOrig        \* the archive generated_pptx held when the call began

archVars == <<srcReadable, srcMacro, genFile, finalFile, tmpTree, vba_data, apc,
              pending, failedAt, faults, genOrig>>

\* bounds of the archive model
MaxFaults == 1
MaxOverrides == 1

MacroBytes == {"empty", "vba500"}

\* an XML descriptor inside an archive: present or not, and the number of entries
\* for the macro part it holds
Descriptors ==
    {[present |-> FALSE, n |-> 0]} \cup [present : {TRUE}, n : 0..MaxOverrides]

\* a complete archive: slide content, [Content_Types].xml, presentation.xml.rels,
\* and the entry ppt/vbaProject.bin ("absent" when there is none)
Archives ==
    [kind : {"complete"}, slides : {"generated"}, ctypes : Descriptors,
     rels : Descriptors, vba : {"absent", "gen_vba"}]

\* no file at the path
Absent == [kind |-> "absent"]

\* a zip file whose writing was interrupted
PartialArchive == [kind |-> "partial"]

\* an output left at final_path by an earlier run
OldArchive ==
    [kind |-> "complete", slides |-> "old",
     ctypes |-> [present |-> TRUE, n |-> 0],
     rels |-> [present |-> TRUE, n |-> 0], vba |-> "absent"]

ArchIdle ==
    /\ srcReadable = FALSE /\ srcMacro = "absent" /\ genFile = Absent
    /\ finalFile = Absent /\ tmpTree = Absent /\ vba_data = None /\ apc = "idle"
    /\ pending = FALSE /\ failedAt = None /\ faults = 0 /\ genOrig = Absent

\* the call restore_vba_project(original_src, generated_pptx, final_path); its
\* callers pass a generated_pptx ending in .pptx and a final_path ending in .pptm
InitArchive ==
    /\ srcReadable \in BOOLEAN
    /\ srcMacro \in {"absent"} \cup MacroBytes
    /\ genFile \in Archives
    /\ finalFile \in {Absent, OldArchive}
    /\ tmpTree = Absent /\ vba_data = None /\ apc = "read_source"
    /\ pending = FALSE /\ failedAt = None /\ faults = 0
    /\ genOrig = genFile

\* a step may fail with an I/O error while the fault budget lasts
MayFail == faults < MaxFaults

Fail(step) ==
    /\ faults' = faults + 1
    /\ failedAt' = IF failedAt = None THEN step ELSE failedAt

NoFail == UNCHANGED <<faults, failedAt>>

\* if not vba_data
NoMacro(v) == v = None \/ v = "empty"

\* zorig.read('ppt/vbaProject.bin'); KeyError -> None
ReadSource ==
    /\ apc = "read_source"
    /\ IF srcReadable
       THEN /\ vba_data' = IF srcMacro = "absent" THEN None ELSE srcMacro
            /\ apc' = IF NoMacro(vba_data') THEN "plain_move" ELSE "mkdtemp"
            /\ NoFail
       ELSE /\ Fail("read_source")
            /\ apc' = "fallback"
            /\ UNCHANGED vba_data
    /\ UNCHANGED <<srcReadable, srcMacro, genFile, finalFile, tmpTree, pending, genOrig>>

\* no macros: shutil.move(generated_pptx, final_path); return
PlainMove(ok) ==
    /\ apc = "plain_move"
    /\ IF ok
       THEN /\ finalFile' = genFile /\ genFile' = Absent
            /\ apc' = "returned" /\ NoFail
       ELSE /\ MayFail /\ Fail("plain_move")
            /\ apc' = "fallback"
            /\ UNCHANGED <<genFile, finalFile>>
    /\ UNCHANGED <<srcReadable, srcMacro, tmpTree, vba_data, pending, genOrig>>

\* tmpdir = tempfile.mkdtemp(prefix='pptm_merge_'), outside the inner try
Mkdtemp(ok) ==
    /\ apc = "mkdtemp"
    /\ IF ok
       THEN /\ tmpTree' = [kind |-> "empty"]
            /\ apc' = "extract" /\ NoFail
       ELSE /\ MayFail /\ Fail("mkdtemp")
            /\ apc' = "fallback"
            /\ UNCHANGED tmpTree
    /\ UNCHANGED <<srcReadable, srcMacro, genFile, finalFile, vba_data, pending, genOrig>>

\* zgen.extractall(tmpdir)
Extract(ok) ==
    /\ apc = "extract"
    /\ IF ok /\ genFile # Absent
       THEN /\ tmpTree' = genFile
            /\ apc' = "write_vba" /\ pending' = FALSE /\ NoFail
       ELSE /\ MayFail /\ Fail("extract")
            /\ apc' = "cleanup" /\ pending' = TRUE
            /\ UNCHANGED tmpTree
    /\ UNCHANGED <<srcReadable, srcMacro, genFile, finalFile, vba_data, genOrig>>

\* write vba_data to tmpdir/ppt/vbaProject.bin
WriteVba(ok) ==
    /\ apc = "write_vba"
    /\ IF ok
       THEN /\ tmpTree' = [tmpTree EXCEPT !.vba = vba_data]
            /\ apc' = "patch_ctypes" /\ pending' = FALSE /\ NoFail
       ELSE /\ MayFail /\ Fail("write_vba")
            /\ apc' = "cleanup" /\ pending' = TRUE
            /\ UNCHANGED tmpTree
    /\ UNCHANGED <<srcReadable, srcMacro, genFile, finalFile, vba_data, genOrig>>

\* a faulty variant that appends the entry even when it is already there
AddEntryAlways(d) == [d EXCEPT !.n = d.n + 1]
\* add one entry for the macro part unless one is already there
AddEntryOnce(d) == IF d.n >= 1 THEN d ELSE [d EXCEPT !.n = 1]

\* [Content_Types].xml: parsed and patched only when the file exists
PatchContentTypes(ok) ==
    /\ apc = "patch_ctypes"
    /\ IF ~tmpTree.ctypes.present
       THEN /\ ok /\ apc' = "patch_rels" /\ pending' = FALSE /\ NoFail
            /\ UNCHANGED tmpTree
       ELSE IF ok
       THEN /\ tmpTree' = [tmpTree EXCEPT !.ctypes = AddEntryOnce(tmpTree.ctypes)]
            /\ apc' = "patch_rels" /\ pending' = FALSE /\ NoFail
       ELSE /\ MayFail
            /\ Fail("patch_ctypes")
            /\ apc' = "cleanup" /\ pending' = TRUE
            /\ UNCHANGED tmpTree
    /\ UNCHANGED <<srcReadable, srcMacro, genFile, finalFile, vba_data, genOrig>>

\* a presentation.xml.rels that does not exist is created with a minimal root
RelsRoot(d) == IF d.present THEN d ELSE [present |-> TRUE, n |-> 0]

\* ppt/_rels/presentation.xml.rels: parsed when it exists, created otherwise
PatchRels(ok) ==
    /\ apc = "patch_rels"
    /\ IF ok
       THEN /\ tmpTree' = [tmpTree EXCEPT !.rels = AddEntryOnce(RelsRoot(tmpTree.rels))]
            /\ apc' = "repack" /\ pending' = FALSE /\ NoFail
       ELSE /\ MayFail
            /\ Fail("patch_rels")
            /\ apc' = "cleanup" /\ pending' = TRUE
            /\ UNCHANGED tmpTree
    /\ UNCHANGED <<srcReadable, srcMacro, genFile, finalFile, vba_data, genOrig>>

\* zipfile.ZipFile(final_path, 'w', ZIP_DEFLATED) over os.walk(tmpdir); opening for
\* writing truncates final_path, so an interrupted write leaves a partial file
Repack(ok) ==
    /\ apc = "repack"
    /\ IF ok
       THEN /\ finalFile' = tmpTree
            /\ pending' = FALSE /\ NoFail
       ELSE /\ MayFail /\ Fail("repack")
            /\ finalFile' = PartialArchive
            /\ pending' = TRUE
    /\ apc' = "cleanup"
    /\ UNCHANGED <<srcReadable, srcMacro, genFile, tmpTree, vba_data, genOrig>>

\* what the finally block does to generated_pptx: os.remove when it exists
RemoveGenerated(g) == Absent

\* finally: shutil.rmtree(tmpdir); then os.remove(generated_pptx), whose errors
\* are swallowed. A failing rmtree raises before the remove. Afterwards the
\* function returns, or the exception in flight reaches the outer except.
Cleanup(rm_ok, del_ok) ==
    /\ apc = "cleanup"
    /\ IF rm_ok
       THEN /\ tmpTree' = Absent
            /\ IF del_ok
               THEN genFile' = RemoveGenerated(genFile) /\ NoFail
               ELSE MayFail /\ Fail("remove_generated") /\ UNCHANGED genFile
            /\ apc' = IF pending THEN "fallback" ELSE "returned"
       ELSE /\ MayFail /\ del_ok /\ Fail("rmtree")
            /\ apc' = "fallback"
            /\ UNCHANGED <<tmpTree, genFile>>
    /\ pending' = FALSE
    /\ UNCHANGED <<srcReadable, srcMacro, finalFile, vba_data, genOrig>>

\* except Exception: shutil.move(generated_pptx, final_path), errors swallowed;
\* the move raises when generated_pptx no longer exists
Fallback(ok) ==
    /\ apc = "fallback"
    /\ IF ok /\ genFile # Absent
       THEN /\ finalFile' = genFile /\ genFile' = Absent /\ NoFail
       ELSE /\ (genFile = Absent \/ MayFail)
            /\ ok = FALSE
            /\ Fail("fallback_move")
            /\ UNCHANGED <<genFile, finalFile>>
    /\ apc' = "returned"
    /\ UNCHANGED <<srcReadable, srcMacro, tmpTree, vba_data, pending, genOrig>>

(***************************************************************************)
(* Part 3: PresentationProcessor.process                                   *)
(***************************************************************************)
VARIABLES
    deck,                    \* existing notes of each slide of the source deck
    ledgerFile,              \* the progress file of each locale, as persisted
    visualFiles,             \* slide images present in config.visuals_dir, per locale
    en_visuals_dir,          \* the directory a target run inspects for English visuals
    run,                     \* number of process() calls started
    edits,                   \* number of changes made to the deck or a ledger between runs
    language,                \* config.language
    retry_errors,            \* self.retry_errors (force-retry)
    translator_agent,        \* a translator agent is configured
    image_translator_agent,  \* an image translator agent is configured
    skip_visuals,            \* config.skip_visuals
    generate_videos,         \* config.generate_videos and a video agent is configured
    progress,                \* the ledger in memory
    progress0,               \* the ledger as loaded when the run began
    english_notes,           \* self.english_notes: slide index -> English note
    ppc,                     \* position of process()
    slide,                   \* slide index of the loop of the current phase
    attempt_no,              \* loop variable of the supervisor retry loop
    last_writer_output,      \* tool_factory._last_writer_output
    translate_out,           \* what _translate_notes returned for each slide of this run
    translate_calls,         \* translator invocations per slide in this run
    draft_calls,             \* supervisor workflow invocations per slide in this run
    slide_data,              \* the records Phase 1 hands to Phase 2 and Phase 3
    missing_visuals_count,   \* missing-visual counter of Phase 2
    visual_calls,            \* image capability invocations per slide in this run
    prompt_files,            \* slides whose video prompt file has been written
    notes_saved,             \* the notes-only container has been saved
    visuals_saved,           \* the visuals container has been saved
    returned,                \* the pair process() returned
    visual_out,              \* what Phase 2 did for each slide in this run
    touched,                 \* what the user changed since the last run began
    changes,                 \* what the user changed before the current run
    video_out,               \* what Phase 3 did for each slide in this run
    image_translator_calls,  \* image translator invocations per slide in this run
    previous_slide_summary,  \* previous_slide_summary of _phase_generate_notes
    prs_notes,               \* notes of each slide of the notes-only copy
    prs_visuals,             \* notes of each slide of the visuals copy
    previous_image,          \* the visual generator's style reference
    designer_images,         \* the style references handed to the designer
    visuals_dir_made         \* locales whose visuals directory a run has created

pipeVars == <<deck, ledgerFile, visualFiles, en_visuals_dir, run, edits, language,
              retry_errors, translator_agent, image_translator_agent, skip_visuals,
              generate_videos, progress, progress0, english_notes, ppc, slide,
              attempt_no, last_writer_output, translate_out, translate_calls,
              draft_calls, slide_data, missing_visuals_count, visual_calls,
              prompt_files, notes_saved, visuals_saved, returned, visual_out,
              touched, changes,
              video_out,
              image_translator_calls,
              previous_slide_summary,
              prs_notes,
              prs_visuals,
              previous_image,
              designer_images,
              visuals_dir_made>>

\* bounds of the pipeline model
NSlides == 2
MaxOps == 3

\* max_retries of the supervisor loop in _process_slide_notes
SupervisorMaxRetries == 3

Slides == 1..NSlides
Locales == {"en", "fr"}

\* Texts are tuples; the empty tuple is the empty string.
EmptyText == <<>>
Truthy(t) == t # EmptyText

\* notes a slide of the deck may carry (get_slide_notes strips them)
DeckTexts == {EmptyText, <<"Welcome">>, <<"Speaker notes draft 65303">>,
              <<"Speaker notes draft 121199">>}

\* notes the user types when editing a slide between runs
EditTexts == DeckTexts \ {EmptyText}

\* hashlib.sha256(notes.encode("utf-8")).hexdigest()[:8] of the deck texts
NotesHash(t) ==
    CASE t = EmptyText -> "e3b0c442"
      [] t = <<"Welcome">> -> "0e2226b5"
      [] t = <<"Speaker notes draft 65303">> -> "becf8995"
      [] t = <<"Speaker notes draft 121199">> -> "becf8995"

\* a faulty variant whose key ignores the notes
create_slide_key_of_index(index, notes) == <<"slide", index, NotesHash(EmptyText)>>
\* f"slide_{index}_{h}"
create_slide_key(index, notes) == <<"slide", index, NotesHash(notes)>>

\* texts the capabilities produce; r is the run that produced them
DraftText(r, i) == <<"draft", r, i>>
WriterText(r, i) == <<"writer", r, i>>
TranslatedText(t) == <<"fr">> \o t
ErrorText == <<"Error: translator failed">>

\* the number of characters of a text
RECURSIVE TextLen(_)
TextLen(t) ==
    CASE t = EmptyText -> 0
      [] t = <<"Welcome">> -> 7
      [] t = <<"Start of presentation.">> -> 22
      [] t = <<"Speaker notes draft 65303">> -> 25
      [] t = <<"Speaker notes draft 121199">> -> 26
      [] t = <<"Error: translator failed">> -> 24
      [] OTHER -> CASE t[1] = "draft" -> 150 * (t[3] + 1)
                    [] t[1] = "writer" -> 120 * t[3]
                    [] t[1] = "fr" -> TextLen(Tail(t)) + 20
                    [] t[1] = "prefix" -> t[2]

\* the summary before the first slide, and the length a summary is cut to
StartOfPresentation == <<"Start of presentation.">>
SummaryLen == 200

\* the notes of the copies before a deck is loaded
NoNotes == [i \in Slides |-> EmptyText]

\* a ledger: the entries of "slides" in insertion order
EmptyLedger == [exists |-> FALSE, slides |-> <<>>]

NoEntry == [key |-> <<>>, slide_index |-> 0, original_notes |-> EmptyText,
            note |-> EmptyText, status |-> "none"]

HasKey(L, k) == \E n \in 1..Len(L.slides) : L.slides[n].key = k

\* progress["slides"].get(skey)
GetEntry(L, k) ==
    IF HasKey(L, k)
    THEN L.slides[CHOOSE n \in 1..Len(L.slides) : L.slides[n].key = k]
    ELSE NoEntry

\* progress["slides"][skey] = {...}: an existing key keeps its place
PutEntry(L, e) ==
    [exists |-> L.exists,
     slides |-> IF HasKey(L, e.key)
                THEN [n \in 1..Len(L.slides) |->
                        IF L.slides[n].key = e.key THEN e ELSE L.slides[n]]
                ELSE Append(L.slides, e)]

\* load_progress: a missing file yields {"slides": {}}
load_progress(f) == IF f.exists THEN f ELSE EmptyLedger

\* a faulty save that writes an empty ledger
save_progress_empty(L) == [EmptyLedger EXCEPT !.exists = TRUE]

\* save_progress writes the whole ledger over the file
save_progress(L) == [L EXCEPT !.exists = TRUE]

\* the loop that fills self.english_notes: success entries with an index and a
\* non-empty note, a later entry of the dict overwriting an earlier one
EnglishNotesOf(f) ==
    LET L == load_progress(f)
        ok(n) == L.slides[n].status = "success" /\ Truthy(L.slides[n].note)
        idxs == {L.slides[n].slide_index : n \in {m \in 1..Len(L.slides) : ok(m)}}
        last(i) == CHOOSE n \in 1..Len(L.slides) :
                      /\ ok(n) /\ L.slides[n].slide_index = i
                      /\ \A m \in 1..Len(L.slides) :
                            (ok(m) /\ L.slides[m].slide_index = i) => m <= n
    IN [i \in idxs |-> L.slides[last(i)].note]

ZeroCalls == [i \in Slides |-> 0]
NoTranslation == [i \in Slides |-> "not called"]
NoVisuals == [i \in Slides |-> "pending"]

\* Phase 3 has not reached the slide; Phase 3 skipped it for its status
NotReached == [agent |-> "pending", write |-> FALSE]
Skipped == [agent |-> "skipped", write |-> FALSE]
NoVideos == [i \in Slides |-> NotReached]

\* VisualGenerator.previous_image: None, or the image opened from the bytes of
\* slide k; the style references the designer received for each slide, one per
\* designer call
NoImage == {}
ImageOf(k) == {k}
NoDesignerCalls == [i \in Slides |-> <<>>]

\* save_fails: the file system refuses to write in the ledger's directory, so
\* save_progress fails, logs the failure and returns (Part 4).
\* tool_factory: the factory _configure_supervisor_tools takes its tools from.
\* notes_frame: the slides of the deck whose notes slide has a text frame.
\* output_dir: the configured output directory: none ("generate", the default
\* generate/ folder next to the deck, with a style subfolder or not), the
\* directory of the deck itself ("pptx_dir"), or another one ("elsewhere").
VARIABLES save_fails, tool_factory, notes_frame, output_dir

diskVars == <<save_fails, tool_factory, notes_frame, output_dir>>

OutputDirs == {"generate", "pptx_dir", "elsewhere"}

\* the repository's AgentToolFactory, or a stand-in whose methods accept the
\* calls made to them (the mock factory of the test suite)
ToolFactories == {"AgentToolFactory", "stand-in"}

\* _configure_supervisor_tools calls create_auditor_tool(language) and
\* create_translator_tool(); AgentToolFactory.create_auditor_tool takes no
\* argument and create_translator_tool requires target_language, so with the
\* repository's factory the first of these calls raises TypeError
ConfigureSupervisorTools == tool_factory # "AgentToolFactory"

\* the part of process() before Phase 1: load the ledger, load the English notes
\* when the locale is not English and the English ledger file exists
BeginRun(lang, retry, tr, imgtr, skip, videos) ==
    /\ language' = lang /\ retry_errors' = retry
    /\ translator_agent' = tr /\ image_translator_agent' = imgtr
    /\ skip_visuals' = skip /\ generate_videos' = videos
    /\ progress' = load_progress(ledgerFile[lang])
    /\ progress0' = load_progress(ledgerFile[lang])
    /\ english_notes' = IF lang # "en" /\ ledgerFile["en"].exists
                        THEN EnglishNotesOf(ledgerFile["en"]) ELSE <<>>
    /\ ppc' = IF ConfigureSupervisorTools THEN "p1" ELSE "aborted"
    /\ slide' = 1 /\ attempt_no' = 0
    /\ last_writer_output' = EmptyText
    /\ translate_out' = NoTranslation
    /\ translate_calls' = ZeroCalls /\ draft_calls' = ZeroCalls
    /\ visual_calls' = ZeroCalls
    /\ slide_data' = <<>> /\ missing_visuals_count' = 0
    /\ prompt_files' = {}
    /\ notes_saved' = FALSE /\ visuals_saved' = FALSE
    /\ returned' = <<>>
    /\ visual_out' = NoVisuals
    /\ visuals_dir_made' = IF skip THEN visuals_dir_made ELSE visuals_dir_made \cup {lang}
    /\ designer_images' = NoDesignerCalls
    /\ previous_image' = NoImage
    /\ prs_visuals' = deck
    /\ prs_notes' = deck
    /\ previous_slide_summary' = StartOfPresentation
    /\ image_translator_calls' = ZeroCalls
    /\ video_out' = NoVideos

\* the current slide's ledger key and entry, as computed at the head of the loop
SKey == create_slide_key(slide, deck[slide])
Entry == GetEntry(progress, SKey)

\* a faulty guard that does not ask for the slide's English note
TranslationModeAnySlide ==
    /\ language # "en"
    /\ translator_agent
    /\ english_notes # <<>>

\* the guard of the translation branch of _process_slide_notes
TranslationMode ==
    /\ language # "en"
    /\ translator_agent
    /\ english_notes # <<>>
    /\ slide \in DOMAIN english_notes

\* a faulty variant that never reuses a stored entry
AlreadyDoneNever(e) == FALSE
\* entry and entry.get("status") == "success" and not self.retry_errors
AlreadyDone(e) == e.status = "success" /\ ~retry_errors

\* a faulty guard that takes a stored note equal to the English note for a
\* translation
AlreadyTranslatedEqual(e) == AlreadyDone(e) /\ e.note = english_notes[slide]
\* a faulty variant without the comparison against the English note
AlreadyTranslatedAlways(e) == AlreadyDone(e)
\* the already-translated guard: a stored note equal to the English note is
\* translated again
AlreadyTranslated(e) == AlreadyDone(e) /\ e.note # english_notes[slide]

\* update_slide_notes(slide, notes): the slide's notes paragraph becomes the
\* text; a slide whose notes slide has no text frame makes it raise, which is
\* logged and leaves the notes as they were
update_slide_notes(prs, i, notes) ==
    IF i \in notes_frame THEN [prs EXCEPT ![i] = notes] ELSE prs

\* t[:n], the first n characters of a text
Prefix(t, n) == IF TextLen(t) <= n THEN t ELSE <<"prefix", n>> \o t

\* a faulty variant that advances the summary after every slide
AdvanceSummaryAlways(summary, final_response, status) ==
    Prefix(final_response, SummaryLen)
\* if status == "success": previous_slide_summary = final_response[:200]
AdvanceSummary(summary, final_response, status) ==
    IF status = "success" THEN Prefix(final_response, SummaryLen) ELSE summary

\* the file after save_progress(self.progress_file, progress): the whole new
\* ledger, or the previous file when the save failed
Saved(file, L) == IF save_fails THEN file ELSE save_progress(L)

\* the tail of the loop body of _phase_generate_notes: record the result in the
\* ledger, save it, and hand the slide to the later phases
FinishSlide(final_response, status) ==
    LET e == [key |-> SKey, slide_index |-> slide, original_notes |-> deck[slide],
              note |-> final_response, status |-> status]
    IN /\ progress' = PutEntry(progress, e)
       /\ ledgerFile' = [ledgerFile EXCEPT ![language] = Saved(@, PutEntry(progress, e))]
       /\ slide_data' = Append(slide_data,
              [slide_idx |-> slide, speaker_notes |-> final_response, status |-> status])
       /\ slide' = IF slide = NSlides THEN 1 ELSE slide + 1
       /\ ppc' = IF slide = NSlides THEN "p2" ELSE "p1"
       /\ attempt_no' = 0
       /\ prs_notes' = IF status = "success"
                       THEN update_slide_notes(prs_notes, slide, final_response)
                       ELSE prs_notes
       /\ prs_visuals' = IF status = "success"
                         THEN update_slide_notes(prs_visuals, slide, final_response)
                         ELSE prs_visuals
       /\ previous_slide_summary' =
             AdvanceSummary(previous_slide_summary, final_response, status)

\* "Check if already done", reached directly or after a failed translation:
\* return the stored note, or enter the supervisor retry loop
CheckDoneOrDraft ==
    IF AlreadyDone(Entry)
    THEN FinishSlide(Entry.note, "success")
    ELSE /\ ppc' = "draft" /\ attempt_no' = 0
         /\ UNCHANGED <<progress, ledgerFile, slide_data, slide,
                        previous_slide_summary, prs_notes, prs_visuals>>

\* _process_slide_notes up to its first capability call
ProcessSlideNotes ==
    /\ ppc = "p1"
    /\ IF TranslationMode
       THEN IF AlreadyTranslated(Entry)
            THEN FinishSlide(Entry.note, "success")
            ELSE /\ ppc' = "translate"
                 /\ UNCHANGED <<progress, ledgerFile, slide_data, slide, attempt_no,
                             previous_slide_summary, prs_notes, prs_visuals>>
       ELSE CheckDoneOrDraft
    /\ UNCHANGED <<video_out,
                   image_translator_calls,
                   previous_image,
                   designer_images,
                   visuals_dir_made,
                   touched, changes, visual_out,
                   deck, visualFiles, en_visuals_dir, run, edits, language,
                   retry_errors, translator_agent, image_translator_agent,
                   skip_visuals, generate_videos, progress0, english_notes,
                   last_writer_output, translate_out, translate_calls, draft_calls,
                   missing_visuals_count, visual_calls, prompt_files, notes_saved,
                   visuals_saved, returned>>

\* what the translator capability answers
TranslatorAnswers == {"translated", "echo", "empty", "raises"}

\* run_stateless_agent(translator, prompt): the stripped text, or "Error: ..." when
\* the agent raises; _translate_notes returns it when it is not empty, else None
TranslateNotes(english_note, answer) ==
    CASE answer = "translated" -> TranslatedText(english_note)
      [] answer = "echo" -> english_note
      [] answer = "empty" -> EmptyText
      [] answer = "raises" -> ErrorText

\* the translation branch: translate the English note; fall back when nothing
\* came back
TranslateSlide(answer) ==
    /\ ppc = "translate"
    /\ translate_calls' = [translate_calls EXCEPT ![slide] = @ + 1]
    /\ LET translated_note == TranslateNotes(english_notes[slide], answer)
       IN /\ translate_out' = [translate_out EXCEPT ![slide] =
                                 IF Truthy(translated_note) THEN "text" ELSE "nothing"]
          /\ IF Truthy(translated_note)
             THEN FinishSlide(translated_note, "success")
             ELSE CheckDoneOrDraft
    /\ UNCHANGED <<video_out,
                   image_translator_calls,
                   previous_image,
                   designer_images,
                   visuals_dir_made,
                   touched, changes, visual_out,
                   deck, visualFiles, en_visuals_dir, run, edits, language,
                   retry_errors, translator_agent, image_translator_agent,
                   skip_visuals, generate_videos, progress0, english_notes,
                   last_writer_output, draft_calls,
                   missing_visuals_count, visual_calls, prompt_files, notes_saved,
                   visuals_saved, returned>>

\* what one run of the supervisor workflow does: the text it returns, whether the
\* writer tool stored an output on the way, whether the run raised
DraftAnswers == [kind : {"text", "empty", "raises"}, writer : BOOLEAN]

\* the answers of a workflow whose writer tool stores nothing
PlainDraftAnswers == {d \in DraftAnswers : ~d.writer}

\* a faulty variant that allows one attempt more
AttemptsRemainOneMore(a) == a < SupervisorMaxRetries
\* attempt < max_retries - 1
AttemptsRemain(a) == a < SupervisorMaxRetries - 1

\* for attempt in range(max_retries)
InRange(a) == a < SupervisorMaxRetries

\* one iteration of the supervisor retry loop of _process_slide_notes; status
\* is "pending" until an attempt sets it, and the loop returns it as it is
\* when the range is exhausted
DraftSlide(answer) ==
    /\ ppc = "draft"
    /\ draft_calls' = [draft_calls EXCEPT ![slide] = @ + 1]
    /\ LET last_output == IF answer.writer THEN WriterText(run, slide)
                          ELSE last_writer_output
       IN CASE answer.kind = "text" ->
                 /\ last_writer_output' = EmptyText
                 /\ FinishSlide(DraftText(run, slide), "success")
            [] answer.kind = "empty" /\ Truthy(last_output) ->
                 /\ last_writer_output' = EmptyText
                 /\ FinishSlide(last_output, "success")
            [] answer.kind = "empty" /\ ~Truthy(last_output) ->
                 /\ last_writer_output' = last_output
                 /\ IF AttemptsRemain(attempt_no)
                    THEN IF InRange(attempt_no + 1)
                         THEN /\ attempt_no' = attempt_no + 1
                              /\ UNCHANGED <<progress, ledgerFile, slide_data, slide, ppc,
                                          previous_slide_summary, prs_notes, prs_visuals>>
                         ELSE FinishSlide(EmptyText, "pending")
                    ELSE FinishSlide(EmptyText, "error")
            [] answer.kind = "raises" ->
                 /\ last_writer_output' = last_output
                 /\ IF AttemptsRemain(attempt_no)
                    THEN IF InRange(attempt_no + 1)
                         THEN /\ attempt_no' = attempt_no + 1
                              /\ UNCHANGED <<progress, ledgerFile, slide_data, slide, ppc,
                                          previous_slide_summary, prs_notes, prs_visuals>>
                         ELSE FinishSlide(EmptyText, "pending")
                    ELSE FinishSlide(EmptyText, "error")
    /\ UNCHANGED <<video_out,
                   image_translator_calls,
                   previous_image,
                   designer_images,
                   visuals_dir_made,
                   touched, changes, visual_out,
                   deck, visualFiles, en_visuals_dir, run, edits, language,
                   retry_errors, translator_agent, image_translator_agent,
                   skip_visuals, generate_videos, progress0, english_notes,
                   translate_out, translate_calls,
                   missing_visuals_count, visual_calls, prompt_files, notes_saved,
                   visuals_saved, returned>>

\* a faulty lookup in the directory the English run writes to
EnglishVisualsWritten ==
    [exists |-> "en" \in visuals_dir_made, files |-> visualFiles["en"]]
\* the directory <deck directory>/<base>_en_visuals Phase 2 looks into: it is
\* the visuals directory of the English runs, <output directory>/<base>_en_visuals,
\* only when the output directory is the directory of the deck
EnglishVisualsDir ==
    IF output_dir = "pptx_dir"
    THEN [exists |-> "en" \in visuals_dir_made, files |-> visualFiles["en"]]
    ELSE en_visuals_dir

\* a faulty Phase 2 that never translates
TranslateVisualsNever == FALSE
\* the guard under which Phase 2 translates the English visuals
TranslateVisuals ==
    language # "en" /\ image_translator_agent /\ EnglishVisualsDir.exists

\* what the environment does to one slide's visual production: how translating
\* the English image ends (it cannot be opened, the image translator returns no
\* bytes, the translated image cannot be stored, or it is stored), whether an
\* existing image loads, which model (if any) returns bytes, whether the
\* generated image can be saved, whether PIL can open the image bytes
VisualAnswers ==
    [tr : {"open_raises", "no_bytes", "store_raises", "stored"}, load_ok : BOOLEAN,
     gen : {"designer", "imagen", "none"}, save_ok : BOOLEAN, pil_ok : BOOLEAN]

\* the environment of a run that attempts no image operation
NoVisualAnswer ==
    [tr |-> "no_bytes", load_ok |-> FALSE, gen |-> "none", save_ok |-> FALSE,
     pil_ok |-> FALSE]

\* VisualGenerator._update_previous_image for the bytes of slide i
update_previous_image(i, pil_ok) == IF pil_ok THEN ImageOf(i) ELSE NoImage

\* VisualGenerator.generate_visual: the bytes it returns (TRUE: some), the image
\* capability calls it makes, whether the image file exists afterwards, the
\* style references the designer received (FORCE_FALLBACK_IMAGE_GEN unset, so
\* the designer is called whenever an image is generated) and previous_image
\* afterwards
GenerateVisual(i, o) ==
    LET exists == i \in visualFiles[language]
    IN IF skip_visuals
       THEN [bytes |-> FALSE, calls |-> 0, file |-> exists,
             designer |-> <<>>, previous |-> previous_image]
       ELSE IF exists /\ ~retry_errors /\ o.load_ok
       THEN [bytes |-> TRUE, calls |-> 0, file |-> TRUE,
             designer |-> <<>>, previous |-> update_previous_image(i, o.pil_ok)]
       ELSE [bytes |-> o.gen # "none",
             calls |-> IF o.gen = "designer" THEN 1 ELSE 2,
             file |-> exists \/ (o.gen # "none" /\ o.save_ok),
             designer |-> <<previous_image>>,
             previous |-> IF o.gen = "none" THEN NoImage
                          ELSE IF o.save_ok THEN update_previous_image(i, o.pil_ok)
                          ELSE previous_image]

\* replace_slide_with_visual for a slide Phase 2 obtained image bytes for: the
\* shapes are removed and add_picture reads the image file, so the slide shows
\* the visual only if the file is there; Phase 2 ignores the returned flag
replace_slide_with_visual(i) ==
    /\ visual_out[i] \in {"generated", "translated"}
    /\ i \in visualFiles[language]

\* if missing_visuals_count == 0, decided when the outputs are saved
AllVisualsPresent(n) == n = 0

\* a faulty variant that forgets to count
CountMissingMutant(n) == n
\* the counter after a slide for which no image was produced
CountMissing(n) == n + 1

\* one iteration of the loop of _phase_generate_visuals
VisualSlide(o) ==
    /\ ppc = "p2"
    /\ LET info == slide_data[slide]
           target_exists == slide \in visualFiles[language]
           en_exists == slide \in EnglishVisualsDir.files
           tries_translation == TranslateVisuals /\ ~target_exists /\ en_exists
           raises == info.status = "success" /\ tries_translation
                     /\ o.tr \in {"open_raises", "store_raises"}
           translated == info.status = "success" /\ TranslateVisuals
                         /\ (target_exists \/ (en_exists /\ o.tr = "stored"))
           g == GenerateVisual(slide, o)
       IN IF raises
          THEN /\ ppc' = "aborted"
               /\ visual_calls' = [visual_calls EXCEPT ![slide] =
                                     IF o.tr = "open_raises" THEN 0 ELSE 1]
               /\ image_translator_calls' = [image_translator_calls EXCEPT ![slide] =
                                                IF o.tr = "open_raises" THEN 0 ELSE 1]
               /\ UNCHANGED <<visualFiles, missing_visuals_count, slide, visual_out,
                              previous_image, designer_images>>
          ELSE /\ ppc' = IF slide = NSlides THEN "p3" ELSE "p2"
               /\ slide' = IF slide = NSlides THEN 1 ELSE slide + 1
               /\ image_translator_calls' = [image_translator_calls EXCEPT ![slide] =
                     IF info.status = "success" /\ tries_translation THEN 1 ELSE 0]
               /\ IF info.status # "success"
                  THEN /\ missing_visuals_count' = CountMissing(missing_visuals_count)
                       /\ visual_out' = [visual_out EXCEPT ![slide] = "not attempted"]
                       /\ UNCHANGED <<visualFiles, visual_calls, previous_image,
                                      designer_images>>
                  ELSE IF translated
                  THEN /\ visualFiles' = [visualFiles EXCEPT ![language] = @ \cup {slide}]
                       /\ visual_calls' = [visual_calls EXCEPT ![slide] =
                                             IF target_exists THEN 0 ELSE 1]
                       /\ visual_out' = [visual_out EXCEPT ![slide] = "translated"]
                       /\ UNCHANGED <<missing_visuals_count, previous_image,
                                      designer_images>>
                  ELSE /\ visualFiles' = [visualFiles EXCEPT ![language] =
                                            IF g.file THEN @ \cup {slide} ELSE @]
                       /\ visual_calls' = [visual_calls EXCEPT ![slide] =
                                             g.calls + (IF tries_translation THEN 1 ELSE 0)]
                       /\ missing_visuals_count' =
                              IF g.bytes THEN missing_visuals_count
                              ELSE CountMissing(missing_visuals_count)
                       /\ visual_out' = [visual_out EXCEPT ![slide] =
                                           IF g.bytes THEN "generated" ELSE "no bytes"]
                       /\ previous_image' = g.previous
                       /\ designer_images' = [designer_images EXCEPT ![slide] =
                                                 g.designer]
    /\ UNCHANGED <<video_out,
                   previous_slide_summary,
                   prs_notes,
                   prs_visuals,
                   visuals_dir_made,
                   touched, changes,
                   deck, ledgerFile, en_visuals_dir, run, edits, language,
                   retry_errors, translator_agent, image_translator_agent,
                   skip_visuals, generate_videos, progress, progress0, english_notes,
                   attempt_no, last_writer_output, translate_out, translate_calls,
                   draft_calls, slide_data, prompt_files, notes_saved,
                   visuals_saved, returned>>

\* a faulty Phase 3 that may start while Phase 2 is still handling slides
VideoPhaseEarly(ok) ==
    /\ ppc \in {"p2", "p3"}
    /\ ppc' = IF generate_videos /\ ok THEN "p3_slides" ELSE "save"
    /\ slide' = 1
    /\ UNCHANGED <<video_out,
                   image_translator_calls,
                   previous_slide_summary,
                   prs_notes,
                   prs_visuals,
                   previous_image,
                   designer_images,
                   visuals_dir_made,
                   touched, changes, visual_out,
                   deck, ledgerFile, visualFiles, en_visuals_dir, run, edits, language,
                   retry_errors, translator_agent, image_translator_agent,
                   skip_visuals, generate_videos, progress, progress0, english_notes,
                   attempt_no, last_writer_output, translate_out, translate_calls,
                   draft_calls, slide_data, missing_visuals_count, visual_calls,
                   prompt_files, notes_saved, visuals_saved, returned>>

\* _phase_generate_videos: enter the loop when videos are enabled, else pass.
\* ok: os.makedirs(videos_dir) and pymupdf.open(pdf_path) at the head of
\* _generate_videos_for_slides succeed; when one raises, the phase logs
\* "Continuing without videos" and handles no slide
VideoPhase(ok) ==
    /\ ppc = "p3"
    /\ ppc' = IF generate_videos /\ ok THEN "p3_slides" ELSE "save"
    /\ slide' = 1
    /\ UNCHANGED <<video_out,
                   image_translator_calls,
                   previous_slide_summary,
                   prs_notes,
                   prs_visuals,
                   previous_image,
                   designer_images,
                   visuals_dir_made,
                   touched, changes, visual_out,
                   deck, ledgerFile, visualFiles, en_visuals_dir, run, edits, language,
                   retry_errors, translator_agent, image_translator_agent,
                   skip_visuals, generate_videos, progress, progress0, english_notes,
                   attempt_no, last_writer_output, translate_out, translate_calls,
                   draft_calls, slide_data, missing_visuals_count, visual_calls,
                   prompt_files, notes_saved, visuals_saved, returned>>

\* what the environment does to one slide's video. agent: the video agent's
\* response names an artifact, names none, the attempt raises, or the PDF has no
\* page for the slide and the agent is not called. write: the prompt file can
\* be written
VideoAnswers ==
    [agent : {"artifact", "no_artifact", "raises", "no_page"}, write : BOOLEAN]

\* the answers of a video agent that always names an artifact
PlainVideoAnswers == {o \in VideoAnswers : o.agent = "artifact"}

\* a faulty loop body that writes the prompt file only with an artifact
WritesPromptWithArtifact(status, o) ==
    status = "success" /\ o.agent = "artifact" /\ o.write
\* the prompt file is written after the inner try, whatever the agent did; the
\* outer "except Exception" catches a failure to write it
WritesPrompt(status, o) == status = "success" /\ o.write

\* one iteration of the loop of _generate_videos_for_slides; every failure is
\* caught inside the loop
VideoSlide(o) ==
    /\ ppc = "p3_slides"
    /\ video_out' = [video_out EXCEPT ![slide] =
                       IF slide_data[slide].status # "success" THEN Skipped ELSE o]
    /\ prompt_files' = IF WritesPrompt(slide_data[slide].status, o)
                       THEN prompt_files \cup {slide} ELSE prompt_files
    /\ ppc' = IF slide = NSlides THEN "save" ELSE "p3_slides"
    /\ slide' = IF slide = NSlides THEN 1 ELSE slide + 1
    /\ UNCHANGED <<image_translator_calls,
                   previous_slide_summary,
                   prs_notes,
                   prs_visuals,
                   previous_image,
                   designer_images,
                   visuals_dir_made,
                   touched, changes, visual_out,
                   deck, ledgerFile, visualFiles, en_visuals_dir, run, edits, language,
                   retry_errors, translator_agent, image_translator_agent,
                   skip_visuals, generate_videos, progress, progress0, english_notes,
                   attempt_no, last_writer_output, translate_out, translate_calls,
                   draft_calls, slide_data, missing_visuals_count, visual_calls,
                   notes_saved, visuals_saved, returned>>

\* _save_outputs: the notes container always, the visuals container only when no
\* visual is missing; the pair of paths it returns
SaveOutputs ==
    /\ ppc = "save"
    /\ notes_saved' = TRUE
    /\ visuals_saved' = AllVisualsPresent(missing_visuals_count)
    /\ returned' = <<"output_path",
                     IF AllVisualsPresent(missing_visuals_count)
                     THEN "output_path_with_visuals" ELSE None>>
    /\ ppc' = "done"
    /\ UNCHANGED <<video_out,
                   image_translator_calls,
                   previous_slide_summary,
                   prs_notes,
                   prs_visuals,
                   previous_image,
                   designer_images,
                   visuals_dir_made,
                   touched, changes, visual_out,
                   deck, ledgerFile, visualFiles, en_visuals_dir, run, edits, language,
                   retry_errors, translator_agent, image_translator_agent,
                   skip_visuals, generate_videos, progress, progress0, english_notes,
                   slide, attempt_no, last_writer_output, translate_out,
                   translate_calls, draft_calls, slide_data, missing_visuals_count,
                   visual_calls, prompt_files>>

\* no process() call is running
Quiet == ppc \in {"idle", "done", "aborted", "crashed"}

\* a call of process() with a configuration
StartRun(lang, retry, tr, imgtr, skip, videos) ==
    /\ Quiet
    /\ run + edits < MaxOps
    /\ run' = run + 1
    /\ BeginRun(lang, retry, tr, imgtr, skip, videos)
    /\ changes' = touched /\ touched' = {}
    /\ UNCHANGED <<deck, ledgerFile, visualFiles, en_visuals_dir, edits>>

\* the process dies while a slide of Phase 1 is in flight
Crash ==
    /\ ppc \in {"p1", "translate", "draft"}
    /\ ppc' = "crashed"
    /\ UNCHANGED <<visuals_dir_made, designer_images, previous_image, prs_visuals, prs_notes, previous_slide_summary, image_translator_calls, video_out, deck, ledgerFile, visualFiles, en_visuals_dir, run, edits,
                   language, retry_errors, translator_agent,
                   image_translator_agent, skip_visuals, generate_videos,
                   progress, progress0, english_notes, slide, attempt_no,
                   last_writer_output, translate_out, translate_calls,
                   draft_calls, slide_data, missing_visuals_count, visual_calls,
                   prompt_files, notes_saved, visuals_saved, returned,
                   visual_out, touched, changes>>

\* the ledger's directory becomes writable or stops being writable
SetSaveFails(b) ==
    /\ save_fails' = b /\ b # save_fails
    /\ UNCHANGED <<tool_factory, notes_frame, output_dir>>

DiskIdle ==
    /\ save_fails = FALSE /\ tool_factory = "stand-in" /\ notes_frame = Slides
    /\ output_dir = "generate"

\* between two runs the user edits the notes of one slide of the deck
EditNotes(i, t) ==
    /\ ppc \in {"done", "aborted"}
    /\ run + edits + 1 < MaxOps
    /\ t # deck[i]
    /\ deck' = [deck EXCEPT ![i] = t]
    /\ touched' = touched \cup {[op |-> "edit", slide |-> i, old |-> deck[i]]}
    /\ edits' = edits + 1
    /\ UNCHANGED <<video_out,
                   image_translator_calls,
                   previous_slide_summary,
                   prs_notes,
                   prs_visuals,
                   previous_image,
                   designer_images,
                   visuals_dir_made,
                   changes, visual_out,
                   ledgerFile, visualFiles, en_visuals_dir, run, language,
                   retry_errors, translator_agent, image_translator_agent,
                   skip_visuals, generate_videos, progress, progress0, english_notes,
                   ppc, slide, attempt_no, last_writer_output, translate_out,
                   translate_calls, draft_calls, slide_data, missing_visuals_count,
                   visual_calls, prompt_files, notes_saved, visuals_saved, returned>>

\* a ledger without the entry under key k
WithoutKey(L, k) ==
    [exists |-> L.exists,
     slides |-> SelectSeq(L.slides, LAMBDA e : e.key # k)]

\* between two runs the user deletes the English ledger entry of one slide
DeleteEntry(i) ==
    /\ ppc \in {"done", "aborted"}
    /\ run + edits + 1 < MaxOps
    /\ HasKey(ledgerFile["en"], create_slide_key(i, deck[i]))
    /\ ledgerFile' = [ledgerFile EXCEPT
                        !["en"] = WithoutKey(@, create_slide_key(i, deck[i]))]
    /\ touched' = touched \cup {[op |-> "delete", slide |-> i, old |-> deck[i]]}
    /\ edits' = edits + 1
    /\ UNCHANGED <<video_out,
                   image_translator_calls,
                   previous_slide_summary,
                   prs_notes,
                   prs_visuals,
                   previous_image,
                   designer_images,
                   visuals_dir_made,
                   changes, visual_out,
                   deck, visualFiles, en_visuals_dir, run, language,
                   retry_errors, translator_agent, image_translator_agent,
                   skip_visuals, generate_videos, progress, progress0, english_notes,
                   ppc, slide, attempt_no, last_writer_output, translate_out,
                   translate_calls, draft_calls, slide_data, missing_visuals_count,
                   visual_calls, prompt_files, notes_saved, visuals_saved, returned>>

\* before the first run: nothing loaded, nothing produced
PipeIdle ==
    /\ run = 0 /\ edits = 0
    /\ language = "en" /\ retry_errors = FALSE /\ translator_agent = FALSE
    /\ image_translator_agent = FALSE /\ skip_visuals = FALSE
    /\ generate_videos = FALSE
    /\ progress = EmptyLedger /\ progress0 = EmptyLedger /\ english_notes = <<>>
    /\ ppc = "idle" /\ slide = 1 /\ attempt_no = 0
    /\ last_writer_output = EmptyText
    /\ translate_out = NoTranslation
    /\ translate_calls = ZeroCalls /\ draft_calls = ZeroCalls
    /\ visual_calls = ZeroCalls
    /\ slide_data = <<>> /\ missing_visuals_count = 0
    /\ prompt_files = {}
    /\ notes_saved = FALSE /\ visuals_saved = FALSE
    /\ returned = <<>>
    /\ visual_out = NoVisuals /\ touched = {} /\ changes = {}
    /\ visuals_dir_made = {}
    /\ designer_images = NoDesignerCalls
    /\ previous_image = NoImage
    /\ prs_visuals = NoNotes
    /\ prs_notes = NoNotes
    /\ previous_slide_summary = StartOfPresentation
    /\ image_translator_calls = ZeroCalls
    /\ video_out = NoVideos

\* the deck before the first run: every slide carries the same short note
InitDecks == {[i \in Slides |-> <<"Speaker notes draft 65303">>]}

NoLedgers == [l \in Locales |-> EmptyLedger]

NoVisualsDir == [exists |-> FALSE, files |-> {}]

(***************************************************************************)
(* Part 4: the ledger file (utils/progress_utils.py)                       *)
(***************************************************************************)
VARIABLES
    progress_file,  \* what the file system holds at the ledger path
    tmp_path,       \* what it holds at the temporary path of the running save
    data,           \* the ledger handed to save_progress
    prev,           \* the file at the ledger path when save_progress was entered
    spc,            \* position inside save_progress
    loaded,         \* what the last load_progress returned
    raised          \* an exception left save_progress or load_progress

fileVars == <<progress_file, tmp_path, data, prev, spc, loaded, raised>>

\* ledgers of at most MaxEntries entries
MaxEntries == 2

\* JSON values: a document is null, a list or a dict, a dict may lack "slides"
EntryTokens == {"slide_1:success", "slide_1:error", "slide_2:success"}
RECURSIVE SeqsUpTo(_, _)
SeqsUpTo(S, n) ==
    IF n = 0 THEN {<<>>}
    ELSE SeqsUpTo(S, n - 1) \cup
         {Append(s, x) : s \in {t \in SeqsUpTo(S, n - 1) : Len(t) = n - 1},
                         x \in S}
JsonDict(slides) == [type |-> "dict", keys |-> {"slides"}, slides |-> slides]
JsonEmptyDict == [type |-> "dict", keys |-> {}, slides |-> <<>>]
JsonList == [type |-> "list", keys |-> {}, slides |-> <<>>]
JsonNull == [type |-> "null", keys |-> {}, slides |-> <<>>]
NotLoaded == [type |-> "not loaded", keys |-> {}, slides |-> <<>>]
Ledgers == {JsonDict(s) : s \in SeqsUpTo(EntryTokens, MaxEntries)}
JsonValues == Ledgers \cup {JsonEmptyDict, JsonList, JsonNull}

\* {"slides": {}}
EmptySlides == JsonDict(<<>>)

\* json.dump: the tokens written to the file, in the order they are written
json_dump(v) ==
    IF v.type = "null" THEN <<"null">>
    ELSE IF v.type = "list" THEN <<"[", "]">>
    ELSE IF v.keys = {} THEN <<"{", "}">>
    ELSE <<"{", "slides", "{">> \o v.slides \o <<"}", "}">>

\* json.load: the value of a well-formed document; anything else raises
WellFormed(body) == \E v \in JsonValues : json_dump(v) = body
json_load(body) == CHOOSE v \in JsonValues : json_dump(v) = body

\* files: absent, present but not openable, or a text
Unreadable == [kind |-> "unreadable"]
TextFile(body) == [kind |-> "text", body |-> body]

\* exceptions the steps of save_progress and load_progress raise; both
\* functions catch Exception
StepFailures == {"OSError", "TypeError", "ValueError"}
CaughtOnlyOSError(e) == e = "OSError"
ExceptException(e) == e \in {"OSError", "TypeError", "ValueError"}

\* load_progress
LoadProgress ==
    /\ spc = "idle"
    /\ IF progress_file = Absent
       THEN loaded' = EmptySlides /\ raised' = FALSE
       ELSE IF progress_file = Unreadable
       THEN loaded' = EmptySlides /\ raised' = ~ExceptException("OSError")
       ELSE IF ~WellFormed(progress_file.body)
       THEN loaded' = EmptySlides /\ raised' = ~ExceptException("ValueError")
       ELSE loaded' = json_load(progress_file.body) /\ raised' = FALSE
    /\ UNCHANGED <<progress_file, tmp_path, data, prev, spc>>

\* entry = progress["slides"].get(skey) of Phase 1 on what load_progress
\* returned: None and a list are not subscriptable by a string, a dict without
\* the key raises KeyError; process() has no handler for either
SlidesLookup(p) ==
    IF p.type = "null" \/ p.type = "list" THEN "TypeError"
    ELSE IF "slides" \notin p.keys THEN "KeyError"
    ELSE "entry"

\* save_progress is entered with a ledger
SaveProgress(d) ==
    /\ spc = "idle"
    /\ spc' = "mkstemp" /\ data' = d /\ prev' = progress_file
    /\ loaded' = NotLoaded /\ raised' = FALSE
    /\ UNCHANGED <<progress_file, tmp_path>>

\* a step of save_progress raises e: the handler logs it and returns
SaveFails(e) ==
    /\ spc' = "failed" /\ raised' = ~ExceptException(e)

\* tempfile.mkstemp creates an empty file under a fresh name
Mkstemp(o) ==
    /\ spc = "mkstemp"
    /\ IF o = "ok"
       THEN /\ tmp_path' = TextFile(<<>>) /\ spc' = "dump"
            /\ UNCHANGED raised
       ELSE SaveFails(o) /\ UNCHANGED tmp_path
    /\ UNCHANGED <<progress_file, data, prev, loaded>>

\* the with block is left, and os.replace is reached, once the whole document
\* has been written
DumpCompleteEarly(written, d) == Len(written) + 1 >= Len(json_dump(d))
DumpComplete(written, d) == written = json_dump(d)

\* json.dump writes the next piece of the document into the temporary file
JsonDump(o) ==
    /\ spc = "dump"
    /\ IF DumpComplete(tmp_path.body, data)
       THEN spc' = "replace" /\ UNCHANGED <<tmp_path, raised>>
       ELSE IF o = "ok"
       THEN /\ tmp_path' = TextFile(Append(tmp_path.body,
                              json_dump(data)[Len(tmp_path.body) + 1]))
            /\ UNCHANGED <<spc, raised>>
       ELSE SaveFails(o) /\ UNCHANGED tmp_path
    /\ UNCHANGED <<progress_file, data, prev, loaded>>

\* os.replace renames the temporary file over the ledger path in one step
OsReplace(o) ==
    /\ spc = "replace"
    /\ IF o = "ok"
       THEN /\ progress_file' = tmp_path /\ tmp_path' = Absent
            /\ spc' = "done" /\ UNCHANGED raised
       ELSE SaveFails(o) /\ UNCHANGED <<progress_file, tmp_path>>
    /\ UNCHANGED <<data, prev, loaded>>

\* save_progress returns to its caller; a temporary file left behind by a
\* failed save keeps its own name and is never read again
SaveReturn ==
    /\ spc \in {"done", "failed"}
    /\ spc' = "idle" /\ tmp_path' = Absent
    /\ UNCHANGED <<progress_file, data, prev, loaded, raised>>

\* the process dies inside save_progress
SaveCrash ==
    /\ spc \in {"mkstemp", "dump", "replace"}
    /\ spc' = "crashed"
    /\ UNCHANGED <<progress_file, tmp_path, data, prev, loaded, raised>>

\* a new process starts after a crash
Restart ==
    /\ spc = "crashed"
    /\ spc' = "idle" /\ tmp_path' = Absent
    /\ UNCHANGED <<progress_file, data, prev, loaded, raised>>

\* what the ledger path may hold before the program touches it
InitialFiles ==
    {Absent, Unreadable, TextFile(<<"{", "slides", "{">>)}
        \cup {TextFile(json_dump(v)) : v \in JsonValues}

FileIdle ==
    /\ progress_file = Absent /\ tmp_path = Absent
    /\ data = EmptySlides /\ prev = Absent /\ spc = "idle"
    /\ loaded = NotLoaded /\ raised = FALSE

InitFile ==
    /\ progress_file \in InitialFiles /\ tmp_path = Absent
    /\ data = EmptySlides /\ prev = progress_file /\ spc = "idle"
    /\ loaded = NotLoaded /\ raised = FALSE

(***************************************************************************)
(* Part 5: the global context (PresentationProcessor._get_global_context   *)
(* and ContextService.get_global_context)                                  *)
(***************************************************************************)
VARIABLES
    context_file,      \* per locale: the "global_context" field of its ledger file
    context_before,    \* context_file when the running call was entered
    gc_run,            \* number of calls so far
    gc_cfg,            \* the configuration of the last call
    gc_pc,             \* "idle", "returned" or "raised"
    global_context,    \* what the last call returned
    overviewer_calls,  \* overviewer invocations of the last call
    gc_translator_calls \* translator invocations of the last call

ctxVars == <<context_file, context_before, gc_run, gc_cfg, gc_pc, global_context,
             overviewer_calls, gc_translator_calls>>

\* calls of the function in one behaviour
MaxContextRuns == 2

\* a cached context is used when it is longer than this
MinContextLen == 50

\* lengths of the texts the agents return and the ledgers hold
ContextLens == {0, 30, 50, 51}

\* a text: who produced it, in which call, how many characters
ContextText(kind, r, n) == [kind |-> kind, run |-> r, len |-> n]

\* the ledger file is missing, or has no "global_context" key
NoFile == ContextText("no file", 0, 0)
NoKey == ContextText("no key", 0, 0)
NoContext == ContextText("none", 0, 0)

\* what run_stateless_agent does: it returns the stripped text of the agent, or
\* the text "Error: ..." when running the agent raises
AgentAnswers ==
    {[kind |-> "text", len |-> n] : n \in ContextLens}
        \cup {[kind |-> "raises", len |-> n] : n \in {30, 51}}
run_stateless_agent(role, answer, r) ==
    IF answer.kind = "raises" THEN ContextText("error", r, answer.len)
    ELSE ContextText(role, r, answer.len)

\* a faulty cached-context test that accepts a context of any length
HasCachedAny(c, retry) ==
    /\ c # NoFile /\ c # NoKey /\ c.len > 0
    /\ ~retry

\* the cached-context test of both implementations
has_cached_context(c, retry) ==
    /\ c # NoFile /\ c # NoKey /\ c.len > 0
    /\ c.len > MinContextLen
    /\ ~retry

\* a faulty test that accepts a source context of any length
EnContextStored(impl, c) == c # NoFile /\ c # NoKey /\ c.len > 0

\* the source context is there and long enough to be translated
EnContextUsable(impl, c) ==
    /\ c # NoFile /\ c # NoKey /\ c.len > 0
    /\ IF impl = "processor" THEN c.len > MinContextLen ELSE ~(c.len < MinContextLen)

GcConfigs ==
    [impl : {"processor", "service"}, language : Locales,
     retry_errors : BOOLEAN, translator_agent : BOOLEAN]

\* the call returns c after ov overviewer and tr translator invocations, and
\* stores c in the ledger when it was computed
GcReturn(cfg, c, ov, tr, store) ==
    /\ gc_pc' = "returned" /\ global_context' = c
    /\ overviewer_calls' = ov /\ gc_translator_calls' = tr
    /\ context_file' = IF store THEN [context_file EXCEPT ![cfg.language] = c]
                       ELSE context_file

\* the image-based overviewer generates the context
GcOverview(cfg, ov_answer, tr) ==
    GcReturn(cfg, run_stateless_agent("overview", ov_answer, gc_run + 1), 1, tr, TRUE)

\* _get_global_context of the processor: cached, else translated from the
\* English ledger, else generated; the translator is called without a check
\* that one is configured
ProcessorGetGlobalContext(cfg, ov_answer, tr_answer) ==
    IF has_cached_context(context_file[cfg.language], cfg.retry_errors)
    THEN GcReturn(cfg, context_file[cfg.language], 0, 0, FALSE)
    ELSE IF cfg.language # "en" /\ EnContextUsable("processor", context_file["en"])
    THEN IF cfg.translator_agent
         THEN GcReturn(cfg, run_stateless_agent("translation", tr_answer, gc_run + 1),
                       0, 1, TRUE)
         ELSE /\ gc_pc' = "raised" /\ global_context' = NoContext
              /\ overviewer_calls' = 0 /\ gc_translator_calls' = 0
              /\ UNCHANGED context_file
    ELSE GcOverview(cfg, ov_answer, 0)

\* get_global_context of ContextService: cached, else translated when a
\* translator is configured and returns text, else generated
ServiceGetGlobalContext(cfg, ov_answer, tr_answer) ==
    IF has_cached_context(context_file[cfg.language], cfg.retry_errors)
    THEN GcReturn(cfg, context_file[cfg.language], 0, 0, FALSE)
    ELSE IF /\ cfg.language # "en" /\ cfg.translator_agent
            /\ EnContextUsable("service", context_file["en"])
    THEN LET t == run_stateless_agent("translation", tr_answer, gc_run + 1)
         IN IF t.len > 0 THEN GcReturn(cfg, t, 0, 1, TRUE)
            ELSE GcOverview(cfg, ov_answer, 1)
    ELSE GcOverview(cfg, ov_answer, 0)

\* one call of either implementation
GetGlobalContext(cfg, ov_answer, tr_answer) ==
    /\ gc_run < MaxContextRuns
    /\ gc_run' = gc_run + 1 /\ gc_cfg' = cfg
    /\ context_before' = context_file
    /\ IF cfg.impl = "processor"
       THEN ProcessorGetGlobalContext(cfg, ov_answer, tr_answer)
       ELSE ServiceGetGlobalContext(cfg, ov_answer, tr_answer)

\* what a locale's ledger may hold before the first call
InitialContexts ==
    {NoFile, NoKey} \cup {ContextText("overview", 0, n) : n \in ContextLens}

NoGcConfig ==
    [impl |-> "processor", language |-> "en", retry_errors |-> FALSE,
     translator_agent |-> FALSE]

CtxIdle ==
    /\ context_file = [l \in Locales |-> NoFile]
    /\ context_before = [l \in Locales |-> NoFile]
    /\ gc_run = 0 /\ gc_cfg = NoGcConfig /\ gc_pc = "idle"
    /\ global_context = NoContext
    /\ overviewer_calls = 0 /\ gc_translator_calls = 0

InitContext ==
    /\ context_file \in [Locales -> InitialContexts]
    /\ context_before = context_file
    /\ gc_run = 0 /\ gc_cfg = NoGcConfig /\ gc_pc = "idle"
    /\ global_context = NoContext
    /\ overviewer_calls = 0 /\ gc_translator_calls = 0

(***************************************************************************)
(* Part 6: NotesGenerator.generate_notes (services/notes_generator.py)     *)
(***************************************************************************)
VARIABLES
    generator,   \* the NotesGenerator and the slide generate_notes is called for
    gpc,         \* position of generate_notes
    generated    \* the (notes, status) pair generate_notes returned

genVars == <<generator, gpc, generated>>

\* language, the slides that have an English note, whether the tool factory has
\* a translator agent, the slide of the call
Generators ==
    [language : Locales, english_notes : SUBSET Slides,
     translator_agent : BOOLEAN, slide_idx : Slides]

NoGenerator ==
    [language |-> "en", english_notes |-> {}, translator_agent |-> FALSE,
     slide_idx |-> 1]

\* _should_translate
should_translate(g) ==
    g.language # "en" /\ g.slide_idx \in g.english_notes

\* _translate_notes of NotesGenerator: the tool is created outside the try
\* block and create_translator_tool raises ValueError without a translator
\* agent; the tool returns the agent's text or "Error: ..."
GeneratorTranslate(g, answer) ==
    IF ~g.translator_agent
    THEN gpc' = "raised" /\ generated' = NoResult
    ELSE /\ gpc' = "returned"
         /\ generated' =
              LET translated == TranslateNotes(<<"english note", g.slide_idx>>, answer)
              IN IF Truthy(translated) THEN <<translated, "success">>
                 ELSE <<EmptyText, "error">>

\* generate_notes: translation mode or the supervisor workflow under the retry
\* strategy
GenerateNotes(g, answer) ==
    /\ gpc = "idle"
    /\ generator' = g
    /\ IF should_translate(g)
       THEN /\ GeneratorTranslate(g, answer)
            /\ UNCHANGED retryVars
       ELSE /\ gpc' = "supervising" /\ generated' = NoResult
            /\ max_retries' = MAX_RETRIES /\ base_delay' = RETRY_DELAY
            /\ backoff_multiplier' = RETRY_BACKOFF_MULTIPLIER
            /\ exceptions' = ExcTypes /\ caller' = "notes_generator"
            /\ rpc' = "running"
            /\ UNCHANGED <<attempt, call_count, sleeps, outcomes, result, notes_out>>

\* generate_notes returns what _generate_with_supervisor returned
GenerateNotesReturn ==
    /\ gpc = "supervising" /\ notes_out # NoResult
    /\ gpc' = "returned" /\ generated' = notes_out
    /\ UNCHANGED generator

GenIdle == generator = NoGenerator /\ gpc = "idle" /\ generated = NoResult

(***************************************************************************)
(* Part 7: parse_languages (utils/cli_utils.py) and                        *)
(*         BatchCommand._parse_languages (application/commands/batch.py)   *)
(***************************************************************************)
VARIABLES
    languages_str,   \* the --language argument, a sequence of lexical tokens
    lang_list,       \* the list the parser returned
    parser,          \* which of the two parsers is called
    lpc              \* position: idle, called, returned

langVars == <<languages_str, lang_list, parser, lpc>>

\* bound of the language model: tokens in the argument
MaxTokens == 5

\* the argument is made of locale codes, commas and blanks
LocaleTokens == {"en", "fr", "de"}
Tokens == LocaleTokens \cup {",", " "}

\* the locale code "en" as an item of the list
EN == <<"en">>

RECURSIVE TokenStrings(_)
TokenStrings(n) ==
    IF n = 0 THEN {<<>>}
    ELSE LET shorter == TokenStrings(n - 1)
         IN shorter \cup {Append(t, c) : t \in {u \in shorter : Len(u) = n - 1},
                                         c \in Tokens}

\* str.split(","): the pieces between the commas, empty pieces included
RECURSIVE Split(_)
Split(str) ==
    IF \A i \in 1..Len(str) : str[i] # ","
    THEN <<str>>
    ELSE LET k == CHOOSE i \in 1..Len(str) :
                      str[i] = "," /\ \A j \in 1..(i - 1) : str[j] # ","
         IN <<SubSeq(str, 1, k - 1)>> \o Split(SubSeq(str, k + 1, Len(str)))

\* str.strip(): without its leading and trailing blanks
RECURSIVE Strip(_)
Strip(str) ==
    IF str = <<>> THEN str
    ELSE IF str[1] = " " THEN Strip(Tail(str))
    ELSE IF str[Len(str)] = " " THEN Strip(SubSeq(str, 1, Len(str) - 1))
    ELSE str

\* [lang.strip() for lang in languages_str.split(",")]
StrippedItems(str) == LET parts == Split(str)
                      IN [i \in 1..Len(parts) |-> Strip(parts[i])]

\* list.remove(x): without the first occurrence of x
Remove(list, x) ==
    LET k == CHOOSE i \in 1..Len(list) :
                 list[i] = x /\ \A j \in 1..(i - 1) : list[j] # x
    IN SubSeq(list, 1, k - 1) \o SubSeq(list, k + 1, Len(list))

\* a faulty variant that removes nothing before inserting "en"
RemoveNothing(list, x) == list

Occurs(list, x) == \E i \in 1..Len(list) : list[i] = x

\* parse_languages, and line for line BatchCommand._parse_languages
parse_languages(str) ==
    LET items == StrippedItems(str)
    IN IF ~Occurs(items, EN) THEN <<EN>> \o items
       ELSE IF items[1] # EN THEN <<EN>> \o Remove(items, EN)
       ELSE items

\* a call of one of the two parsers with an argument
ParseCall(who, str) ==
    /\ lpc = "idle"
    /\ languages_str' = str /\ parser' = who
    /\ lpc' = "called"
    /\ UNCHANGED lang_list

\* the parser returns its list
ParseReturn ==
    /\ lpc = "called"
    /\ lang_list' = parse_languages(languages_str)
    /\ lpc' = "returned"
    /\ UNCHANGED <<languages_str, parser>>

LangIdle ==
    languages_str = <<>> /\ lang_list = <<>> /\ parser = "idle" /\ lpc = "idle"

(***************************************************************************)
(* Part 8: the poll loops of generate_video_with_image                     *)
(* (mcp_sample/veo_server.py and veo_mcp/main.py)                          *)
(***************************************************************************)
VARIABLES
    server,                  \* which server's tool runs
    vpc,                     \* "idle", "polling", "returned"
    poll_count,              \* polls made so far
    operation,               \* the operation object the tool holds
    vresult                  \* the status and message kind the tool returns

pollVars == <<server, vpc, poll_count, operation, vresult>>

VideoServers == {"mcp_sample", "veo_mcp"}

\* max_polls of the sample server
max_polls == 120

\* the poll counter of the server without a bound is recorded up to
\* max_polls + ExtraPolls
ExtraPolls == 2
PollCap == max_polls + ExtraPolls

\* what generate_videos and operations.get return: an operation that is not
\* done, or a done one with or without generated videos in its response
Operations == [done : BOOLEAN, videos : BOOLEAN]
NoOperation == [done |-> FALSE, videos |-> FALSE]

\* client.models.generate_videos returned the operation op
GenerateVideos(s, op) ==
    /\ vpc = "idle"
    /\ server' = s
    /\ operation' = op
    /\ poll_count' = 0
    /\ vpc' = "polling"
    /\ UNCHANGED vresult

\* the condition of the while loop
PollAgain(s, op, n) ==
    ~op.done /\ (s = "mcp_sample" => n < max_polls)

\* one iteration of the poll loop: count, sleep 5 seconds, fetch the operation
\* (raises: operations.get raises; answer: the operation it returns)
Poll(raises, answer) ==
    /\ vpc = "polling"
    /\ PollAgain(server, operation, poll_count)
    /\ poll_count' = IF poll_count < PollCap THEN poll_count + 1 ELSE poll_count
    /\ IF raises
       THEN /\ vpc' = "returned"
            /\ vresult' = "exception"
            /\ UNCHANGED operation
       ELSE /\ operation' = answer
            /\ UNCHANGED <<vpc, vresult>>
    /\ UNCHANGED server

\* if poll_count >= max_polls
TimedOut(n) == n >= max_polls

\* the code after the loop of the sample server
SampleResult(op, n) ==
    IF TimedOut(n) THEN "timeout"
    ELSE IF ~op.done THEN "not complete"
    ELSE IF ~op.videos THEN "no video data"
    ELSE "success"

\* the code after the loop of veo_mcp/main.py: generated_videos[0] raises
\* when the response holds no video
VeoMcpResult(op) == IF op.videos THEN "success" ELSE "exception"

\* the loop is left and the tool returns
PollReturn ==
    /\ vpc = "polling"
    /\ ~PollAgain(server, operation, poll_count)
    /\ vresult' = IF server = "mcp_sample" THEN SampleResult(operation, poll_count)
                  ELSE VeoMcpResult(operation)
    /\ vpc' = "returned"
    /\ UNCHANGED <<server, poll_count, operation>>

PollIdle ==
    /\ server = "mcp_sample" /\ vpc = "idle" /\ poll_count = 0
    /\ operation = NoOperation /\ vresult = "none"

(***************************************************************************)
(* Part 9: two runs of Phase 1 on one ledger path                          *)
(* (services/presentation_processor.py and utils/progress_utils.py)        *)
(***************************************************************************)
VARIABLES
    ledger_path,    \* the file at the ledger path the runs share
    initial_file,   \* the file at the ledger path before the runs start
    tmp_files,      \* the temporary files, by name
    run_progress,   \* per run: the progress dict it holds in memory
    run_pc,         \* per run: "start", "slide", "mkstemp", "dump", "replace", "done"
    run_slide,      \* per run: the slide it handles
    run_written,    \* per run: pieces of the document its json.dump has written
    saved_docs,     \* the documents handed to save_progress so far
    persisted       \* <<run, slide>>: the entry was in the file at the ledger path

raceVars == <<ledger_path, initial_file, tmp_files, run_progress, run_pc, run_slide,
              run_written, saved_docs, persisted>>

\* the concurrent runs; run 0 is an earlier run that wrote the initial file
Runs == {1, 2}

\* an entry of progress["slides"], by the run that produced its note
NoRunEntry == [present |-> FALSE, by |-> 0]
EntryBy(r) == [present |-> TRUE, by |-> r]
RunLedgers == [Slides -> {NoRunEntry} \cup {EntryBy(r) : r \in Runs \cup {0}}]
EmptyRunLedger == [i \in Slides |-> NoRunEntry]

\* the pieces json.dump writes for a progress dict, in order
OpenPiece == [piece |-> "{", slide |-> 0, by |-> 0]
ClosePiece == [piece |-> "}", slide |-> 0, by |-> 0]
EntryPiece(i, e) == [piece |-> "entry", slide |-> i, by |-> e.by]
RECURSIVE EntryPieces(_, _)
EntryPieces(m, i) ==
    IF i > NSlides THEN <<>>
    ELSE (IF m[i].present THEN <<EntryPiece(i, m[i])>> ELSE <<>>)
         \o EntryPieces(m, i + 1)
Document(m) == <<OpenPiece>> \o EntryPieces(m, 1) \o <<ClosePiece>>

\* load_progress on the shared path: the dict of a complete document, the
\* empty ledger when the file is absent or json.load fails
RunLoadProgress(file) ==
    IF file # Absent /\ \E m \in RunLedgers : Document(m) = file.body
    THEN CHOOSE m \in RunLedgers : Document(m) = file.body
    ELSE EmptyRunLedger

\* a faulty mkstemp that hands the same name to every caller
SharedTmpName(r) == 1
\* tempfile.mkstemp: a name no other save uses
TmpName(r) == r

\* process(): the run loads the ledger once
RunLoad(r) ==
    /\ run_pc[r] = "start"
    /\ run_progress' = [run_progress EXCEPT ![r] = RunLoadProgress(ledger_path)]
    /\ run_pc' = [run_pc EXCEPT ![r] = "slide"]
    /\ UNCHANGED <<ledger_path, initial_file, tmp_files, run_slide, run_written,
                   saved_docs, persisted>>

\* one slide of Phase 1: a success entry the run holds is kept, else the
\* run's own note is stored; then save_progress is entered
RunSlide(r) ==
    /\ run_pc[r] = "slide"
    /\ LET i == run_slide[r]
           m == [run_progress[r] EXCEPT ![i] =
                    IF @.present THEN @ ELSE EntryBy(r)]
       IN /\ run_progress' = [run_progress EXCEPT ![r] = m]
          /\ saved_docs' = saved_docs \cup {Document(m)}
    /\ run_pc' = [run_pc EXCEPT ![r] = "mkstemp"]
    /\ UNCHANGED <<ledger_path, initial_file, tmp_files, run_slide, run_written,
                   persisted>>

\* save_progress returned (after os.replace or after a logged failure): the
\* loop goes to the next slide
NextSlide(r) ==
    /\ run_pc' = [run_pc EXCEPT ![r] = IF run_slide[r] = NSlides THEN "done" ELSE "slide"]
    /\ run_slide' = [run_slide EXCEPT ![r] = IF @ = NSlides THEN @ ELSE @ + 1]

\* tempfile.mkstemp creates an empty file
RunMkstemp(r, ok) ==
    /\ run_pc[r] = "mkstemp"
    /\ IF ok
       THEN /\ tmp_files' = [tmp_files EXCEPT ![TmpName(r)] = TextFile(<<>>)]
            /\ run_written' = [run_written EXCEPT ![r] = 0]
            /\ run_pc' = [run_pc EXCEPT ![r] = "dump"]
            /\ UNCHANGED run_slide
       ELSE NextSlide(r) /\ UNCHANGED <<tmp_files, run_written>>
    /\ UNCHANGED <<ledger_path, initial_file, run_progress, saved_docs, persisted>>

\* json.dump writes the next piece through the run's file descriptor
RunDump(r, ok) ==
    /\ run_pc[r] = "dump"
    /\ LET doc == Document(run_progress[r])
           f == tmp_files[TmpName(r)]
       IN IF run_written[r] = Len(doc)
          THEN /\ run_pc' = [run_pc EXCEPT ![r] = "replace"]
               /\ UNCHANGED <<tmp_files, run_written, run_slide>>
          ELSE IF ok
          THEN /\ tmp_files' = [tmp_files EXCEPT ![TmpName(r)] =
                     TextFile(Append(IF f = Absent THEN <<>> ELSE f.body,
                                     doc[run_written[r] + 1]))]
               /\ run_written' = [run_written EXCEPT ![r] = @ + 1]
               /\ UNCHANGED <<run_pc, run_slide>>
          ELSE NextSlide(r) /\ UNCHANGED <<tmp_files, run_written>>
    /\ UNCHANGED <<ledger_path, initial_file, run_progress, saved_docs, persisted>>

\* the entries of a file that holds a complete document
EntriesOf(file) ==
    {<<file.body[k].by, file.body[k].slide>> :
        k \in {n \in 1..Len(file.body) : file.body[n].piece = "entry"}}

\* os.replace renames the temporary file over the ledger path in one step
RunReplace(r, ok) ==
    /\ run_pc[r] = "replace"
    /\ IF ok /\ tmp_files[TmpName(r)] # Absent
       THEN /\ ledger_path' = tmp_files[TmpName(r)]
            /\ tmp_files' = [tmp_files EXCEPT ![TmpName(r)] = Absent]
            /\ persisted' = persisted \cup EntriesOf(tmp_files[TmpName(r)])
       ELSE UNCHANGED <<ledger_path, tmp_files, persisted>>
    /\ NextSlide(r)
    /\ UNCHANGED <<initial_file, run_progress, run_written, saved_docs>>

RaceIdle ==
    /\ ledger_path = Absent /\ initial_file = Absent
    /\ tmp_files = [n \in Runs |-> Absent]
    /\ run_progress = [r \in Runs |-> EmptyRunLedger]
    /\ run_pc = [r \in Runs |-> "done"]
    /\ run_slide = [r \in Runs |-> 1]
    /\ run_written = [r \in Runs |-> 0]
    /\ saved_docs = {} /\ persisted = {}

(***************************************************************************)
(* Specifications                                                          *)
(***************************************************************************)
\* the groups of the parts that run outside process()
auxVars == <<langVars, pollVars, raceVars>>
AuxIdle == LangIdle /\ PollIdle /\ RaceIdle

\* the groups of Parts 4 to 7 and the save switch
extVars == <<fileVars, diskVars, ctxVars, genVars, auxVars>>

vars == <<retryVars, archVars, pipeVars, extVars>>

\* the deck, the ledgers and the image directories before any run
PipeEnv(d, vf, evd) ==
    /\ deck = d /\ ledgerFile = NoLedgers
    /\ visualFiles = vf /\ en_visuals_dir = evd

PipeQuiet == PipeIdle /\ PipeEnv([i \in Slides |-> EmptyText],
                                 [l \in Locales |-> {}], NoVisualsDir)

\* RetryStrategy.execute, from every construction and caller
InitRetry ==
    /\ ArchIdle /\ PipeQuiet /\ FileIdle /\ DiskIdle /\ GenIdle /\ AuxIdle /\ CtxIdle
    /\ \E m \in 1..MaxRetriesBound, b \in 1..MaxBaseDelay,
          k \in 1..MaxMultiplier, ex \in ExceptionSets :
            IF ex = ExcTypes /\ m = MAX_RETRIES /\ b = RETRY_DELAY
               /\ k = RETRY_BACKOFF_MULTIPLIER
            THEN \E c \in {"direct", "notes_generator"} : RetryStart(c, m, b, k, ex)
            ELSE RetryStart("direct", m, b, k, ex)

NextRetry ==
    \/ \E o \in OpOutcomes : RetryAttempt(o) /\ UNCHANGED <<archVars, pipeVars, extVars>>
    \/ GenerateWithSupervisorReturn /\ UNCHANGED <<archVars, pipeVars, extVars>>

SpecRetry == InitRetry /\ [][NextRetry]_vars

\* restore_vba_project, from every source, generated file and final path
InitArchiveSpec == RetryIdle /\ PipeQuiet /\ FileIdle /\ DiskIdle /\ GenIdle /\ AuxIdle /\ CtxIdle /\ InitArchive

NextArchiveSpec ==
    \/ ReadSource /\ UNCHANGED <<retryVars, pipeVars, extVars>>
    \/ /\ \E ok \in BOOLEAN : PlainMove(ok)
       /\ UNCHANGED <<retryVars, pipeVars, extVars>>
    \/ /\ \E ok \in BOOLEAN : Mkdtemp(ok)
       /\ UNCHANGED <<retryVars, pipeVars, extVars>>
    \/ /\ \E ok \in BOOLEAN : Extract(ok)
       /\ UNCHANGED <<retryVars, pipeVars, extVars>>
    \/ /\ \E ok \in BOOLEAN : WriteVba(ok)
       /\ UNCHANGED <<retryVars, pipeVars, extVars>>
    \/ /\ \E ok \in BOOLEAN : PatchContentTypes(ok)
       /\ UNCHANGED <<retryVars, pipeVars, extVars>>
    \/ /\ \E ok \in BOOLEAN : PatchRels(ok)
       /\ UNCHANGED <<retryVars, pipeVars, extVars>>
    \/ /\ \E ok \in BOOLEAN : Repack(ok)
       /\ UNCHANGED <<retryVars, pipeVars, extVars>>
    \/ /\ \E rm_ok \in BOOLEAN, del_ok \in BOOLEAN : Cleanup(rm_ok, del_ok)
       /\ UNCHANGED <<retryVars, pipeVars, extVars>>
    \/ /\ \E ok \in BOOLEAN : Fallback(ok)
       /\ UNCHANGED <<retryVars, pipeVars, extVars>>

SpecArchive == InitArchiveSpec /\ [][NextArchiveSpec]_vars

\* Phase 1 over several runs of process(), the user editing the deck or the
\* English ledger in between; visuals skipped, no videos
InitNotes ==
    /\ RetryIdle /\ ArchIdle /\ PipeIdle /\ FileIdle /\ DiskIdle /\ GenIdle /\ AuxIdle /\ CtxIdle
    /\ \E d \in InitDecks : PipeEnv(d, [l \in Locales |-> {}], NoVisualsDir)

NextNotes ==
    \/ /\ \E lang \in Locales, retry \in BOOLEAN, tr \in BOOLEAN :
             StartRun(lang, retry, tr, FALSE, TRUE, FALSE)
       /\ UNCHANGED <<retryVars, archVars, extVars>>
    \/ ProcessSlideNotes /\ UNCHANGED <<retryVars, archVars, extVars>>
    \/ /\ \E answer \in TranslatorAnswers : TranslateSlide(answer)
       /\ UNCHANGED <<retryVars, archVars, extVars>>
    \/ /\ \E answer \in DraftAnswers : DraftSlide(answer)
       /\ UNCHANGED <<retryVars, archVars, extVars>>
    \/ /\ VisualSlide(NoVisualAnswer)
       /\ UNCHANGED <<retryVars, archVars, extVars>>
    \/ /\ \E ok \in BOOLEAN : VideoPhase(ok)
       /\ UNCHANGED <<retryVars, archVars, extVars>>
    \/ SaveOutputs /\ UNCHANGED <<retryVars, archVars, extVars>>
    \/ /\ \E i \in Slides, t \in EditTexts : EditNotes(i, t)
       /\ UNCHANGED <<retryVars, archVars, extVars>>
    \/ /\ \E i \in Slides : DeleteEntry(i)
       /\ UNCHANGED <<retryVars, archVars, extVars>>

SpecNotes == InitNotes /\ [][NextNotes]_vars

\* image directories a run may find: none, or the English images of some slides
VisualsDirs == {NoVisualsDir, [exists |-> TRUE, files |-> {1}]}

\* one run of process() through all phases, from every configuration and every
\* state of the image directories
InitVisuals ==
    /\ RetryIdle /\ ArchIdle /\ PipeIdle /\ FileIdle /\ DiskIdle /\ GenIdle /\ AuxIdle /\ CtxIdle
    /\ \E evd \in VisualsDirs, S \in {{}, {1}} :
          PipeEnv([i \in Slides |-> EmptyText], [l \in Locales |-> S], evd)

NextVisuals ==
    \/ /\ run = 0
       /\ \E lang \in Locales, retry \in BOOLEAN, imgtr \in BOOLEAN,
             skip \in BOOLEAN, videos \in BOOLEAN :
             StartRun(lang, retry, FALSE, imgtr, skip, videos)
       /\ UNCHANGED <<retryVars, archVars, extVars>>
    \/ ProcessSlideNotes /\ UNCHANGED <<retryVars, archVars, extVars>>
    \/ /\ \E answer \in PlainDraftAnswers : DraftSlide(answer)
       /\ UNCHANGED <<retryVars, archVars, extVars>>
    \/ /\ \E o \in VisualAnswers : VisualSlide(o)
       /\ UNCHANGED <<retryVars, archVars, extVars>>
    \/ /\ \E ok \in BOOLEAN : VideoPhase(ok)
       /\ UNCHANGED <<retryVars, archVars, extVars>>
    \/ /\ \E o \in PlainVideoAnswers : VideoSlide(o)
       /\ UNCHANGED <<retryVars, archVars, extVars>>
    \/ SaveOutputs /\ UNCHANGED <<retryVars, archVars, extVars>>

SpecVisuals == InitVisuals /\ [][NextVisuals]_vars

\* save_progress and load_progress on every content of the ledger path, every
\* step of a save failing or the process dying between two steps
InitLedger ==
    RetryIdle /\ ArchIdle /\ PipeQuiet /\ DiskIdle /\ GenIdle /\ AuxIdle /\ CtxIdle /\ InitFile

NextLedger ==
    \/ LoadProgress /\ UNCHANGED <<retryVars, archVars, pipeVars, diskVars, ctxVars, genVars, auxVars>>
    \/ /\ \E d \in Ledgers : SaveProgress(d)
       /\ UNCHANGED <<retryVars, archVars, pipeVars, diskVars, ctxVars, genVars, auxVars>>
    \/ /\ \E o \in {"ok", "OSError"} : Mkstemp(o)
       /\ UNCHANGED <<retryVars, archVars, pipeVars, diskVars, ctxVars, genVars, auxVars>>
    \/ /\ \E o \in {"ok"} \cup StepFailures : JsonDump(o)
       /\ UNCHANGED <<retryVars, archVars, pipeVars, diskVars, ctxVars, genVars, auxVars>>
    \/ /\ \E o \in {"ok", "OSError"} : OsReplace(o)
       /\ UNCHANGED <<retryVars, archVars, pipeVars, diskVars, ctxVars, genVars, auxVars>>
    \/ SaveReturn /\ UNCHANGED <<retryVars, archVars, pipeVars, diskVars, ctxVars, genVars, auxVars>>
    \/ SaveCrash /\ UNCHANGED <<retryVars, archVars, pipeVars, diskVars, ctxVars, genVars, auxVars>>
    \/ Restart /\ UNCHANGED <<retryVars, archVars, pipeVars, diskVars, ctxVars, genVars, auxVars>>

SpecLedger == InitLedger /\ [][NextLedger]_vars

\* Phase 1 of English runs with either tool factory, a ledger directory that
\* may refuse writes and a process that may die while a slide is in flight
InitWriteThrough ==
    /\ RetryIdle /\ ArchIdle /\ PipeIdle /\ FileIdle /\ CtxIdle /\ GenIdle /\ AuxIdle
    /\ save_fails \in BOOLEAN /\ tool_factory \in ToolFactories
    /\ notes_frame = Slides /\ output_dir = "generate"
    /\ \E d \in InitDecks : PipeEnv(d, [l \in Locales |-> {}], NoVisualsDir)

NextWriteThrough ==
    \/ /\ \E retry \in BOOLEAN : StartRun("en", retry, FALSE, FALSE, TRUE, FALSE)
       /\ UNCHANGED <<retryVars, archVars, extVars>>
    \/ ProcessSlideNotes /\ UNCHANGED <<retryVars, archVars, extVars>>
    \/ /\ \E answer \in PlainDraftAnswers : DraftSlide(answer)
       /\ UNCHANGED <<retryVars, archVars, extVars>>
    \/ /\ VisualSlide(NoVisualAnswer)
       /\ UNCHANGED <<retryVars, archVars, extVars>>
    \/ /\ \E ok \in BOOLEAN : VideoPhase(ok)
       /\ UNCHANGED <<retryVars, archVars, extVars>>
    \/ SaveOutputs /\ UNCHANGED <<retryVars, archVars, extVars>>
    \/ Crash /\ UNCHANGED <<retryVars, archVars, extVars>>
    \/ /\ \E b \in BOOLEAN : SetSaveFails(b)
       /\ UNCHANGED <<retryVars, archVars, pipeVars, fileVars, ctxVars, genVars, auxVars>>

SpecWriteThrough == InitWriteThrough /\ [][NextWriteThrough]_vars

\* English runs without visuals, with and without videos, under every outcome
\* of the video agent and of writing the prompt file
InitVideos ==
    /\ RetryIdle /\ ArchIdle /\ PipeIdle /\ FileIdle /\ DiskIdle /\ CtxIdle /\ GenIdle /\ AuxIdle
    /\ \E d \in InitDecks : PipeEnv(d, [l \in Locales |-> {}], NoVisualsDir)

NextVideos ==
    \/ /\ \E videos \in BOOLEAN : StartRun("en", FALSE, FALSE, FALSE, TRUE, videos)
       /\ UNCHANGED <<retryVars, archVars, extVars>>
    \/ ProcessSlideNotes /\ UNCHANGED <<retryVars, archVars, extVars>>
    \/ /\ \E answer \in PlainDraftAnswers : DraftSlide(answer)
       /\ UNCHANGED <<retryVars, archVars, extVars>>
    \/ /\ VisualSlide(NoVisualAnswer)
       /\ UNCHANGED <<retryVars, archVars, extVars>>
    \/ /\ \E ok \in BOOLEAN : VideoPhase(ok)
       /\ UNCHANGED <<retryVars, archVars, extVars>>
    \/ /\ \E o \in VideoAnswers : VideoSlide(o)
       /\ UNCHANGED <<retryVars, archVars, extVars>>
    \/ SaveOutputs /\ UNCHANGED <<retryVars, archVars, extVars>>

SpecVideos == InitVideos /\ [][NextVideos]_vars

\* English runs over decks in which any of the slides may lack a notes text
\* frame, under every outcome of the drafting workflow
InitCopies ==
    /\ RetryIdle /\ ArchIdle /\ PipeIdle /\ FileIdle /\ CtxIdle /\ GenIdle /\ AuxIdle
    /\ save_fails = FALSE /\ tool_factory = "stand-in" /\ output_dir = "generate"
    /\ notes_frame \in SUBSET Slides
    /\ \E d \in InitDecks : PipeEnv(d, [l \in Locales |-> {}], NoVisualsDir)

NextCopies ==
    \/ /\ \E retry \in BOOLEAN : StartRun("en", retry, FALSE, FALSE, TRUE, FALSE)
       /\ UNCHANGED <<retryVars, archVars, extVars>>
    \/ ProcessSlideNotes /\ UNCHANGED <<retryVars, archVars, extVars>>
    \/ /\ \E answer \in DraftAnswers : DraftSlide(answer)
       /\ UNCHANGED <<retryVars, archVars, extVars>>
    \/ /\ VisualSlide(NoVisualAnswer)
       /\ UNCHANGED <<retryVars, archVars, extVars>>
    \/ /\ \E ok \in BOOLEAN : VideoPhase(ok)
       /\ UNCHANGED <<retryVars, archVars, extVars>>
    \/ SaveOutputs /\ UNCHANGED <<retryVars, archVars, extVars>>

SpecCopies == InitCopies /\ [][NextCopies]_vars

\* the entry an earlier English run left for slide i when its notes were v
SourceVersions == {<<"Welcome">>, <<"Speaker notes draft 65303">>}
SourceEntry(i, v, st) ==
    [key |-> create_slide_key(i, v), slide_index |-> i, original_notes |-> v,
     note |-> IF st = "error" THEN EmptyText
              ELSE IF v = <<"Welcome">> THEN DraftText(0, i) ELSE WriterText(0, i),
     status |-> st]

\* the entries English runs can have left for slide i, in the order of their
\* first insertion: none, one version of the notes, or both in either order
SourceHistories(i) ==
    {<<>>}
    \cup {<<SourceEntry(i, v, st)>> : v \in SourceVersions, st \in {"success", "error"}}
    \cup {h \in {<<SourceEntry(i, v, st), SourceEntry(i, w, su)>> :
                    v \in SourceVersions, w \in SourceVersions,
                    st \in {"success", "error"}, su \in {"success", "error"}} :
             h[1].key # h[2].key}

RECURSIVE SourceSlides(_)
SourceSlides(i) ==
    IF i > NSlides THEN {<<>>}
    ELSE {h \o t : h \in SourceHistories(i), t \in SourceSlides(i + 1)}

SourceLedgers == {[exists |-> TRUE, slides |-> sl] : sl \in SourceSlides(1)}

\* one target-locale run over an English ledger that earlier English runs and
\* edits of the notes have left behind
InitSource ==
    /\ RetryIdle /\ ArchIdle /\ PipeIdle /\ FileIdle /\ DiskIdle /\ GenIdle /\ AuxIdle /\ CtxIdle
    /\ deck \in InitDecks
    /\ \E L \in SourceLedgers : ledgerFile = [NoLedgers EXCEPT !["en"] = L]
    /\ visualFiles = [l \in Locales |-> {}] /\ en_visuals_dir = NoVisualsDir

NextSource ==
    \/ /\ run = 0
       /\ \E retry \in BOOLEAN, tr \in BOOLEAN :
             StartRun("fr", retry, tr, FALSE, TRUE, FALSE)
       /\ UNCHANGED <<retryVars, archVars, extVars>>
    \/ ProcessSlideNotes /\ UNCHANGED <<retryVars, archVars, extVars>>
    \/ /\ \E answer \in TranslatorAnswers : TranslateSlide(answer)
       /\ UNCHANGED <<retryVars, archVars, extVars>>
    \/ /\ \E answer \in PlainDraftAnswers : DraftSlide(answer)
       /\ UNCHANGED <<retryVars, archVars, extVars>>

SpecSource == InitSource /\ [][NextSource]_vars

\* calls of both implementations of the global context, from every content of
\* the two ledgers and every configuration
InitContextSpec ==
    RetryIdle /\ ArchIdle /\ PipeQuiet /\ FileIdle /\ DiskIdle /\ GenIdle /\ AuxIdle /\ InitContext

NextContext ==
    /\ \E cfg \in GcConfigs, ov_answer \in AgentAnswers, tr_answer \in AgentAnswers :
          GetGlobalContext(cfg, ov_answer, tr_answer)
    /\ UNCHANGED <<retryVars, archVars, pipeVars, fileVars, diskVars, genVars, auxVars>>

SpecContext == InitContextSpec /\ [][NextContext]_vars

\* one call of NotesGenerator.generate_notes, from every configuration
InitGenerator ==
    RetryIdle /\ ArchIdle /\ PipeQuiet /\ FileIdle /\ DiskIdle /\ CtxIdle /\ GenIdle /\ AuxIdle

NextGenerator ==
    \/ /\ \E g \in Generators, answer \in TranslatorAnswers : GenerateNotes(g, answer)
       /\ UNCHANGED <<archVars, pipeVars, fileVars, diskVars, ctxVars, auxVars>>
    \/ /\ \E o \in OpOutcomes : RetryAttempt(o)
       /\ UNCHANGED <<archVars, pipeVars, extVars>>
    \/ GenerateWithSupervisorReturn /\ UNCHANGED <<archVars, pipeVars, extVars>>
    \/ /\ GenerateNotesReturn
       /\ UNCHANGED <<retryVars, archVars, pipeVars, fileVars, diskVars, ctxVars, auxVars>>

SpecGenerator == InitGenerator /\ [][NextGenerator]_vars

(***************************************************************************)

\* both parsers on every argument of up to MaxTokens tokens
InitLanguages ==
    /\ RetryIdle /\ ArchIdle /\ PipeQuiet /\ FileIdle /\ DiskIdle /\ CtxIdle /\ GenIdle
    /\ LangIdle /\ PollIdle /\ RaceIdle

NextLanguages ==
    \/ /\ \E who \in {"parse_languages", "BatchCommand._parse_languages"},
             str \in TokenStrings(MaxTokens) : ParseCall(who, str)
       /\ UNCHANGED <<retryVars, archVars, pipeVars, fileVars, diskVars, ctxVars, genVars,
                      pollVars, raceVars>>
    \/ /\ ParseReturn
       /\ UNCHANGED <<retryVars, archVars, pipeVars, fileVars, diskVars, ctxVars, genVars,
                      pollVars, raceVars>>

SpecLanguages == InitLanguages /\ [][NextLanguages]_vars

\* one call of generate_video_with_image of either server, from the return of
\* generate_videos on, against every behaviour of the operation
InitPolling ==
    /\ RetryIdle /\ ArchIdle /\ PipeQuiet /\ FileIdle /\ DiskIdle /\ CtxIdle /\ GenIdle
    /\ LangIdle /\ PollIdle /\ RaceIdle

NextPolling ==
    \/ /\ \E s \in VideoServers, op \in Operations : GenerateVideos(s, op)
       /\ UNCHANGED <<retryVars, archVars, pipeVars, fileVars, diskVars, ctxVars, genVars,
                      langVars, raceVars>>
    \/ /\ \E raises \in BOOLEAN, answer \in Operations : Poll(raises, answer)
       /\ UNCHANGED <<retryVars, archVars, pipeVars, fileVars, diskVars, ctxVars, genVars,
                      langVars, raceVars>>
    \/ /\ PollReturn
       /\ UNCHANGED <<retryVars, archVars, pipeVars, fileVars, diskVars, ctxVars, genVars,
                      langVars, raceVars>>

SpecPolling == InitPolling /\ [][NextPolling]_vars

\* two runs start on one ledger path that holds nothing or the ledger of an
\* earlier run, and their steps interleave in every order
InitRace ==
    /\ RetryIdle /\ ArchIdle /\ PipeQuiet /\ FileIdle /\ DiskIdle /\ CtxIdle /\ GenIdle
    /\ LangIdle /\ PollIdle
    /\ initial_file \in {Absent} \cup
          {TextFile(Document(m)) :
              m \in [Slides -> {NoRunEntry, EntryBy(0)}]}
    /\ ledger_path = initial_file
    /\ tmp_files = [n \in Runs |-> Absent]
    /\ run_progress = [r \in Runs |-> EmptyRunLedger]
    /\ run_pc = [r \in Runs |-> "start"]
    /\ run_slide = [r \in Runs |-> 1]
    /\ run_written = [r \in Runs |-> 0]
    /\ saved_docs = {} /\ persisted = {}

NextRace ==
    \/ /\ \E r \in Runs : RunLoad(r)
       /\ UNCHANGED <<retryVars, archVars, pipeVars, fileVars, diskVars, ctxVars, genVars,
                      langVars, pollVars>>
    \/ /\ \E r \in Runs : RunSlide(r)
       /\ UNCHANGED <<retryVars, archVars, pipeVars, fileVars, diskVars, ctxVars, genVars,
                      langVars, pollVars>>
    \/ /\ \E r \in Runs, ok \in BOOLEAN : RunMkstemp(r, ok)
       /\ UNCHANGED <<retryVars, archVars, pipeVars, fileVars, diskVars, ctxVars, genVars,
                      langVars, pollVars>>
    \/ /\ \E r \in Runs, ok \in BOOLEAN : RunDump(r, ok)
       /\ UNCHANGED <<retryVars, archVars, pipeVars, fileVars, diskVars, ctxVars, genVars,
                      langVars, pollVars>>
    \/ /\ \E r \in Runs, ok \in BOOLEAN : RunReplace(r, ok)
       /\ UNCHANGED <<retryVars, archVars, pipeVars, fileVars, diskVars, ctxVars, genVars,
                      langVars, pollVars>>

SpecRace == InitRace /\ [][NextRace]_vars

(* Claims                                                                  *)
(***************************************************************************)

\* every invocation so far raised an exception the strategy retries on
AllAttemptsFailedRetryably ==
    \A i \in 1..Len(outcomes) : outcomes[i] # "ok" /\ Catches(exceptions, outcomes[i])

\* C5: an operation that fails with a retryable exception on every attempt is
\* invoked exactly max_retries times, execute sleeps exactly max_retries - 1
\* times, the k-th sleep lasts base_delay * backoff_multiplier^(k-1) and the
\* successive durations never decrease.
C5_RetryBound ==
    (rpc = "returned" /\ AllAttemptsFailedRetryably) =>
        /\ call_count = max_retries
        /\ Len(sleeps) = max_retries - 1
        /\ \A i \in 1..Len(sleeps) :
              sleeps[i] = base_delay * Pow(backoff_multiplier, i - 1)
        /\ \A i \in 1..(Len(sleeps) - 1) : sleeps[i] <= sleeps[i + 1]

\* three failed attempts of the default strategy, with sleeps of 2 s and 4 s
C5_Witness ==
    /\ rpc = "returned" /\ AllAttemptsFailedRetryably
    /\ max_retries = 3 /\ call_count = 3 /\ sleeps = <<2, 4>>

\* C6: execute never lets a failure of the wrapped operation reach its caller;
\* once it has stopped it has returned (None after exhausted attempts), and
\* _generate_with_supervisor turns None into ("", "error").
C6_NeverPropagates ==
    /\ rpc # "raised"
    /\ (notes_out # NoResult /\ result = NoResult) => notes_out = <<"", "error">>

\* the archive at final_path is a whole archive holding the generated slides
FinalHoldsGeneratedSlides ==
    finalFile.kind = "complete" /\ finalFile.slides = genOrig.slides

\* C9: whenever a step of restore_vba_project has failed, the call still ends
\* with final_path holding the complete slide content of the generated archive.
C9_FallbackKeepsContent ==
    (apc = "returned" /\ failedAt # None) => FinalHoldsGeneratedSlides

\* the call ran to its end with no step failing
PreserveSucceeded == apc = "returned" /\ failedAt = None

\* what a successful injection leaves behind: the source's macro bytes at
\* ppt/vbaProject.bin, every entry of the generated archive, no scratch
\* directory, no generated file, and at most the entries that were there or one
FidelityHolds ==
    /\ finalFile.kind = "complete"
    /\ finalFile.vba = srcMacro
    /\ finalFile.slides = genOrig.slides
    /\ genOrig.ctypes.present => finalFile.ctypes.present
    /\ finalFile.rels.present
    /\ tmpTree = Absent
    /\ genFile = Absent
    /\ finalFile.ctypes.n = (IF genOrig.ctypes.present /\ genOrig.ctypes.n = 0
                             THEN 1 ELSE genOrig.ctypes.n)
    /\ finalFile.rels.n = (IF genOrig.rels.n = 0 THEN 1 ELSE genOrig.rels.n)

\* C10 as stated: whenever the source archive holds a macro part, a successful
\* call leaves the macro bytes in the final archive, keeps every generated entry,
\* removes the scratch directory and the generated file, and duplicates no
\* content-type override or relationship that was already there.
C10_FidelityAnyMacroPart ==
    (PreserveSucceeded /\ srcMacro # "absent") => FidelityHolds

\* C10 amended: whenever the source archive holds a macro part that is not
\* empty, a successful call leaves exactly those macro bytes at ppt/vbaProject.bin
\* of the final archive, keeps every generated entry, removes the scratch
\* directory and the generated file, and adds no second content-type override
\* or relationship; an empty macro part is treated as no macro part.
C10_ArchiveFidelity ==
    (PreserveSucceeded /\ srcMacro = "vba500") => FidelityHolds

\* a successful injection into an archive that already had the override, the
\* relationship and a macro part of its own
C10_Witness ==
    /\ PreserveSucceeded /\ srcMacro = "vba500"
    /\ genOrig.ctypes.n = 1 /\ genOrig.rels.n = 1 /\ genOrig.vba = "gen_vba"
    /\ finalFile.vba = "vba500" /\ finalFile.ctypes.n = 1 /\ finalFile.rels.n = 1

\* slide i has left _process_slide_notes in the current run
Finished(i) == i <= Len(slide_data)

\* the ledger entry of slide i under its current key, as loaded when the run began
Entry0(i) == GetEntry(progress0, create_slide_key(i, deck[i]))

\* a usable stored entry: status success and force-retry off
StoredSuccess(i) == Entry0(i).status = "success" /\ ~retry_errors

\* slide i was returned from the ledger without any capability call
Served(i) ==
    /\ translate_calls[i] = 0 /\ draft_calls[i] = 0
    /\ slide_data[i].speaker_notes = Entry0(i).note
    /\ slide_data[i].status = "success"

\* the translation branch applies to slide i in the current run
TranslationModeFor(i) ==
    language # "en" /\ translator_agent /\ i \in DOMAIN english_notes

\* the stored note of slide i is the English note itself
StoredIsEnglish(i) == TranslationModeFor(i) /\ Entry0(i).note = english_notes[i]

\* C1 as stated: in every locale a slide with a success entry under its unchanged
\* key, force-retry off, is returned exactly as stored with no Translate and no
\* drafting call.
C1_IdempotenceEveryLocale ==
    \A i \in Slides : (Finished(i) /\ StoredSuccess(i)) => Served(i)

\* C1 amended: a slide with a success entry under its unchanged key, force-retry
\* off, is returned exactly as stored with no capability call, except in a
\* target-locale run with a translator and an English note for the slide when the
\* stored note equals that English note: then Translate is called exactly once,
\* the drafting workflow is not called, and the slide gets the new translation,
\* or the stored note when the translator returned nothing.
C1_Idempotence ==
    \A i \in Slides : (Finished(i) /\ StoredSuccess(i)) =>
        IF StoredIsEnglish(i)
        THEN /\ translate_calls[i] = 1 /\ draft_calls[i] = 0
             /\ slide_data[i].status = "success"
             /\ IF translate_out[i] = "text"
                THEN slide_data[i].speaker_notes \in
                        {TranslateNotes(english_notes[i], a) : a \in TranslatorAnswers}
                        \ {EmptyText}
                ELSE slide_data[i].speaker_notes = Entry0(i).note
        ELSE Served(i)

\* a target-locale run serves a stored translation, and re-translates a stored
\* note equal to the English one
C1_Witness ==
    /\ Finished(NSlides) /\ ~retry_errors
    /\ \E i \in Slides : TranslationModeFor(i) /\ StoredSuccess(i)
                         /\ ~StoredIsEnglish(i) /\ Served(i)

\* C2 as stated: in a target-locale run every slide with a success source note
\* gets a Translate call; no Draft call when the translation came back, exactly
\* one when it did not.
C2_TranslateEverySourceNote ==
    language # "en" =>
      \A i \in Slides : (Finished(i) /\ i \in DOMAIN english_notes) =>
          /\ translate_calls[i] >= 1
          /\ translate_out[i] = "text" => draft_calls[i] = 0
          /\ translate_out[i] = "nothing" => draft_calls[i] = 1

\* C2 amended: in a target-locale run with a translator configured, a slide with
\* a success source note gets no call at all when the target ledger already holds
\* a success entry for it whose note differs from the source note (force-retry
\* off); otherwise Translate is called exactly once, a translation that came
\* back is the slide's note with no Draft call, and when nothing came back the
\* stored success entry is returned with no Draft call if there is one, else the
\* drafting workflow runs between one and three times.
C2_TranslationFirst ==
    \A i \in Slides : (Finished(i) /\ TranslationModeFor(i)) =>
        IF StoredSuccess(i) /\ ~StoredIsEnglish(i)
        THEN Served(i)
        ELSE /\ translate_calls[i] = 1
             /\ translate_out[i] = "text" =>
                   /\ draft_calls[i] = 0
                   /\ slide_data[i].status = "success"
                   /\ Truthy(slide_data[i].speaker_notes)
             /\ translate_out[i] = "nothing" =>
                   IF StoredSuccess(i)
                   THEN draft_calls[i] = 0
                   ELSE draft_calls[i] \in 1..SupervisorMaxRetries

\* a target run after a source run: one slide translated without drafting,
\* another drafted more than once after the translator returned nothing
C2_Witness ==
    /\ Finished(NSlides)
    /\ \A i \in Slides : TranslationModeFor(i) /\ translate_calls[i] = 1
    /\ \E i \in Slides : translate_out[i] = "text" /\ draft_calls[i] = 0
    /\ \E i \in Slides : translate_out[i] = "nothing" /\ draft_calls[i] > 1

\* slides for which Phase 2 produced no image, or attempted none
FailedVisuals == {i \in Slides : visual_out[i] \in {"no bytes", "not attempted"}}

\* C3: when process() returns, the visuals path is non-null exactly when the
\* missing-visual counter is zero, which is exactly when no slide failed visual
\* production; the visuals container is written exactly when the path is non-null.
C3_AllOrNothingVisuals ==
    ppc = "done" =>
        /\ returned[2] # None <=> missing_visuals_count = 0
        /\ missing_visuals_count = Cardinality(FailedVisuals)
        /\ FailedVisuals # {} => (returned[2] = None /\ ~visuals_saved)
        /\ visuals_saved <=> returned[2] # None

\* a run in which one slide got its image and another got none
C3_Witness ==
    /\ ppc = "done" /\ returned[2] = None
    /\ \E i \in Slides : visual_out[i] = "generated"
    /\ \E i \in Slides : visual_out[i] = "no bytes"

\* Phase 1 has handled every slide of the deck
Phase1Complete == Len(slide_data) = NSlides

\* C4 as stated: once Phase 1 has run to completion, process() ends with the
\* notes-only container saved and a non-null notes path returned, whatever
\* happens in Phase 2 and Phase 3.
C4_NotesAlwaysSaved ==
    (Phase1Complete /\ ppc \in {"done", "aborted"}) =>
        /\ notes_saved
        /\ returned # <<>>
        /\ returned[1] # None

\* the single change the user made before the current run, if it was one
OnlyChange(c) == changes = {c}

\* capability calls made for slide i in Phase 1 of the current run
NotesCalls(i) == translate_calls[i] + draft_calls[i]

NoteBefore(j) == Entry0(j).note
NoteAfter(j) == GetEntry(progress, create_slide_key(j, deck[j])).note

DraftedWithoutText(i) ==
    /\ Finished(i) /\ draft_calls[i] > 0
    /\ slide_data[i].speaker_notes # DraftText(run, i)

\* Phase 1 is at slide Len(slide_data) + 1 until the last slide is recorded, and
\* the run does not stop before that
Phase1Continues ==
    /\ ppc \in {"p1", "translate", "draft"} => slide = Len(slide_data) + 1
    /\ ppc = "aborted" => Phase1Complete
    /\ \A i \in 1..Len(slide_data) : slide_data[i].slide_idx = i

OldOrNew == progress_file \in {prev, TextFile(json_dump(data))}

\* C12: at every instant during and after save_progress, a crash between two
\* steps included, the ledger path holds the complete previous file or the
\* complete new ledger; when a step of the save fails the file is the previous
\* one, and no exception reaches the caller.
C12_AtomicSave ==
    /\ OldOrNew
    /\ spc = "failed" => progress_file = prev
    /\ spc = "done" => progress_file = TextFile(json_dump(data))
    /\ ~raised

\* the process died, or a step failed, with a partly written temporary file
\* while the ledger path held an earlier complete ledger
C12_Witness ==
    /\ spc \in {"crashed", "failed"}
    /\ tmp_path # Absent /\ tmp_path.body # <<>>
    /\ tmp_path.body # json_dump(data)
    /\ prev \in {TextFile(json_dump(v)) : v \in Ledgers \ {data}}
    /\ progress_file = prev

\* the file holds a ledger: a JSON dict with a "slides" dict
ValidLedger(f) ==
    /\ f # Absent /\ f # Unreadable
    /\ WellFormed(f.body) /\ json_load(f.body) \in Ledgers

\* C13: for a missing file, an unreadable file or a file whose content is not a
\* valid ledger, load_progress returns {"slides": {}} and raises nothing.
C13_LoadNeverFails ==
    loaded # NotLoaded /\ ~ValidLedger(progress_file) =>
        loaded = EmptySlides /\ ~raised

\* the ledger file of the run's locale holds the recorded result of every
\* slide processed so far in this run
Persisted ==
    \A i \in 1..Len(slide_data) :
        LET k == create_slide_key(i, deck[i])
        IN /\ HasKey(ledgerFile[language], k)
           /\ GetEntry(ledgerFile[language], k).note = slide_data[i].speaker_notes
           /\ GetEntry(ledgerFile[language], k).status = slide_data[i].status

\* C14 as stated: once slide i has been processed the persisted ledger holds the
\* entries of slides 1..i of this run, also when the process dies while slide
\* i+1 is in flight.
C14_AlwaysPersisted == Persisted

\* C14 amended: the step that finishes slide i saves the whole ledger; when the
\* save succeeds the persisted ledger holds the entries of slides 1..i of this
\* run, when it fails the file stays as it was; no other step of Phase 1, and no
\* crash, changes the file.
C14_WriteThrough ==
    [][IF Len(slide_data') = Len(slide_data) + 1
       THEN IF save_fails THEN ledgerFile' = ledgerFile ELSE Persisted'
       ELSE ledgerFile' = ledgerFile]_vars

\* the process died with slide 2 in flight and the ledger file holds slide 1
C14_Witness ==
    /\ ppc = "crashed" /\ Len(slide_data) = 1 /\ draft_calls[2] > 0
    /\ ~save_fails /\ Persisted /\ ledgerFile[language].exists

\* the phase a position of process() belongs to
PhaseOf(pc) ==
    CASE pc = "idle" -> 0
      [] pc \in {"p1", "translate", "draft"} -> 1
      [] pc = "p2" -> 2
      [] pc \in {"p3", "p3_slides"} -> 3
      [] pc = "save" -> 4
      [] OTHER -> 5

\* slides Phase 2 has handled, slides with any sign of Phase 2 or Phase 3 work
VisualHandled == {i \in Slides : visual_out[i] # "pending"}
VisualTouched == {i \in Slides : visual_out[i] # "pending" \/ visual_calls[i] > 0}
NotesTouched == {i \in Slides : draft_calls[i] > 0 \/ translate_calls[i] > 0}

\* what has been done so far fits the position of the run
PhaseState ==
    /\ PhaseOf(ppc) = 1 =>
          /\ Len(slide_data) = slide - 1
          /\ NotesTouched \subseteq 1..slide
          /\ VisualTouched = {} /\ prompt_files = {}
    /\ VisualTouched # {} => Len(slide_data) = NSlides
    /\ ppc = "p2" =>
          /\ VisualHandled = 1..(slide - 1) /\ VisualTouched \subseteq 1..(slide - 1)
          /\ prompt_files = {}
    /\ (prompt_files # {} \/ PhaseOf(ppc) \in {3, 4}) => VisualHandled = Slides
    /\ ppc = "p3_slides" => prompt_files \subseteq 1..(slide - 1)
    /\ (notes_saved \/ visuals_saved) => ppc = "done"
    /\ \A i \in 1..Len(slide_data) : slide_data[i].slide_idx = i

\* a step of a run never goes back to an earlier phase, moves to the next slide
\* or to the first slide of the next phase, and the containers are written by
\* the step that follows Phase 3
PhaseStep ==
    /\ run' = run => PhaseOf(ppc') >= PhaseOf(ppc)
    /\ (run' = run /\ PhaseOf(ppc') = PhaseOf(ppc)) => slide' \in {slide, slide + 1}
    /\ (run' = run /\ PhaseOf(ppc') > PhaseOf(ppc) /\ PhaseOf(ppc') < 4) =>
          /\ PhaseOf(ppc') = PhaseOf(ppc) + 1
          /\ slide = NSlides \/ ppc = "idle"
    /\ (notes_saved' /\ ~notes_saved) => ppc = "save"
    /\ ppc' = "save" => ppc \in {"p3", "p3_slides"}

\* C15: within one run no Phase 2 visual call happens before Phase 1 has
\* recorded the last slide, no Phase 3 video call before Phase 2 has handled
\* the last slide, the containers are written only after Phase 3, and within
\* each phase the slides are handled one after the other in increasing order.
C15_PhaseOrdering == []PhaseState /\ [][PhaseStep]_vars

\* a run went through the three phases for every slide and saved its outputs
C15_Witness ==
    /\ ppc = "done" /\ notes_saved /\ generate_videos
    /\ NotesTouched = Slides /\ VisualHandled = Slides
    /\ \E i \in Slides : visual_calls[i] > 0
    /\ prompt_files = Slides

\* the last call was for a locale whose ledger held a stored context
GcDone == gc_pc # "idle"
OwnBefore == context_before[gc_cfg.language]
SourceBefore == context_before["en"]
Stored(c) == c # NoFile /\ c # NoKey /\ c.len > 0
NoAgentCalls == overviewer_calls = 0 /\ gc_translator_calls = 0

NeedsContext ==
    /\ GcDone /\ gc_cfg.language # "en"
    /\ ~has_cached_context(OwnBefore, gc_cfg.retry_errors)

SourceSuccess(i) ==
    /\ ledgerFile["en"].exists
    /\ \E n \in 1..Len(ledgerFile["en"].slides) :
          /\ ledgerFile["en"].slides[n].slide_index = i
          /\ ledgerFile["en"].slides[n].status = "success"
          /\ Truthy(ledgerFile["en"].slides[n].note)

\* a run is inside Phase 1
InPhase1 == ppc \in {"p1", "translate", "draft"}

\* C18: in a target-locale run the translator is called for slide i only if the
\* source locale's ledger holds a success entry with a non-empty note for slide
\* i; without such an entry, or without a source ledger, it is never called for
\* slide i.
C18_TranslateOnlySourceSuccess ==
    /\ \A i \in Slides : translate_calls[i] > 0 =>
          /\ language # "en" /\ translator_agent
          /\ i \in DOMAIN english_notes
    /\ ppc = "translate" => slide \in DOMAIN english_notes
    /\ InPhase1 => \A i \in DOMAIN english_notes :
          language # "en" /\ SourceSuccess(i)

\* a target-locale run translated one slide and drafted another that had no
\* successful English note
C18_Witness ==
    /\ language # "en" /\ translator_agent /\ InPhase1
    /\ \E i, j \in Slides :
          /\ translate_calls[i] > 0 /\ SourceSuccess(i)
          /\ ~SourceSuccess(j) /\ translate_calls[j] = 0 /\ draft_calls[j] > 0

\* the call is for a target locale and cannot translate: the slide has no
\* English note or no translator is configured
TranslationUnavailable ==
    /\ gpc # "idle" /\ generator.language # "en"
    /\ generator.slide_idx \notin generator.english_notes
       \/ ~generator.translator_agent

\* C19: in a target-locale run, a slide without a successful source note, or a
\* run without a translator, is processed by the full generation workflow; the
\* absence raises no error and does not by itself mark the slide error.
C19_UnavailableFallsToGeneration ==
    TranslationUnavailable =>
        /\ gpc # "raised"
        /\ caller = "notes_generator"
        /\ gpc = "returned" => generated = notes_out

\* C20: whenever process() returns a visuals path, every slide of the saved
\* visuals container has had its content replaced by its visual artifact; no
\* slide is left without it because storing the image or replacing the slide
\* failed.
C20_VisualsContainerComplete ==
    (ppc = "done" /\ returned[2] # None) =>
        \A i \in Slides : replace_slide_with_visual(i)

\* the last invocation raised an exception outside the configured types
LastNotRetryable ==
    /\ outcomes # <<>>
    /\ outcomes[Len(outcomes)] # "ok"
    /\ ~Catches(exceptions, outcomes[Len(outcomes)])

\* C21: when the operation raises an exception outside the configured types,
\* no further attempt is made and execute returns None.
C21_NonRetryableReturnsNone ==
    LastNotRetryable =>
        /\ call_count = Len(outcomes)
        /\ rpc = "returned" /\ result = NoResult

\* the invocations before the last one all raised exceptions the strategy
\* retries on
FailedRetryablyBefore(n) ==
    \A i \in 1..(n - 1) : outcomes[i] # "ok" /\ Catches(exceptions, outcomes[i])

\* the operation failed k < max_retries times and then succeeded
SucceededAfterRetries ==
    /\ outcomes # <<>>
    /\ outcomes[Len(outcomes)] = "ok"
    /\ FailedRetryablyBefore(Len(outcomes))

\* execute has stopped: no invocation and no sleep follows
ExecuteStopped ==
    (rpc # "running") =>
        /\ call_count' = call_count /\ sleeps' = sleeps
        /\ outcomes' = outcomes /\ result' = result /\ rpc' = rpc

\* after k < max_retries retryable failures execute is still running and has
\* slept k times; the success makes it return the operation's result
RetryUntilSuccess ==
    /\ (AllAttemptsFailedRetryably /\ Len(outcomes) < max_retries) =>
          /\ rpc = "running"
          /\ call_count = Len(outcomes) /\ Len(sleeps) = Len(outcomes)
    /\ SucceededAfterRetries =>
          /\ rpc = "returned"
          /\ call_count = Len(outcomes) /\ Len(outcomes) <= max_retries
          /\ Len(sleeps) = Len(outcomes) - 1
          /\ result = OkValue

\* C22: an operation that fails k < max_retries times with retryable
\* exceptions and then succeeds is invoked exactly k + 1 times, its result is
\* returned unchanged, and no sleep or invocation follows the success.
C22_FirstSuccessReturned == []RetryUntilSuccess /\ [][ExecuteStopped]_vars

\* one retryable failure, then success on the second of three attempts
C22_Witness ==
    /\ rpc = "returned" /\ max_retries = 3
    /\ outcomes = <<"ValueError", "ok">> /\ call_count = 2
    /\ Len(sleeps) = 1 /\ result = OkValue

\* the slides the loop of Phase 3 has gone through in this run
VideoHandled == {i \in Slides : video_out[i] # NotReached}

\* C23 as stated: once Phase 3 of a run with videos is over, every slide with
\* notes status success has its prompt file, whatever the video agent did, and
\* every slide with status error was skipped and has none.
C23_PromptForEverySuccess ==
    (generate_videos /\ ppc \in {"save", "done"}) =>
        \A i \in Slides :
            IF slide_data[i].status = "success"
            THEN i \in prompt_files
            ELSE video_out[i] = Skipped /\ i \notin prompt_files

\* C23, amended: the loop of Phase 3 goes through the slides in order and
\* never aborts the run; a slide with status success gets its prompt file
\* whatever the video agent did, exactly when the file could be written; a slide
\* with status error gets no agent call and no file; and the phase ends with
\* every slide handled, or with none when preparing the phase failed.
C23_PromptUnlessWriteFails ==
    /\ \A i \in VideoHandled :
          IF slide_data[i].status = "success"
          THEN /\ video_out[i].agent \in {"artifact", "no_artifact", "raises", "no_page"}
               /\ i \in prompt_files <=> video_out[i].write
          ELSE video_out[i] = Skipped /\ i \notin prompt_files
    /\ prompt_files \subseteq VideoHandled
    /\ ppc = "p3_slides" => VideoHandled = 1..(slide - 1)
    /\ ppc \in {"save", "done"} => VideoHandled \in {Slides, {}}
    /\ ppc # "aborted"

\* the agent failed on slide 1, whose prompt file was written all the same, and
\* the phase went on to slide 2
C23_Witness ==
    /\ ppc = "done" /\ generate_videos
    /\ video_out[1] = [agent |-> "raises", write |-> TRUE]
    /\ video_out[2].agent = "artifact"
    /\ prompt_files = Slides

\* the locales of a list other than "en", in the order of the list
OtherLocales(list) == SelectSeq(list, LAMBDA x : x # EN)

\* C24: for every comma-separated locale list the parser returns a list whose
\* first element is "en", in which "en" occurs exactly once, and which holds
\* every other requested locale in its original relative order ("en" being
\* added when it was not requested).
C24_LanguageSetNormalized ==
    lpc = "returned" =>
        /\ lang_list[1] = EN
        /\ Cardinality({i \in 1..Len(lang_list) : lang_list[i] = EN}) = 1
        /\ OtherLocales(lang_list) = OtherLocales(StrippedItems(languages_str))

\* C25 as stated: Translate is attempted for slide i exactly when the locale is
\* not the source locale, a success source note exists for the slide, and the
\* slide's current ledger entry, if any, does not equal the source note.
C25_TranslateUnlessEqualsSource ==
    \A i \in Slides : Finished(i) =>
        (translate_calls[i] > 0 <=>
            /\ language # "en" /\ i \in DOMAIN english_notes
            /\ HasKey(progress0, create_slide_key(i, deck[i])) =>
                  Entry0(i).note # english_notes[i])

\* C25, amended: Translate is attempted for slide i, and then exactly once,
\* exactly when the locale is not the source locale, a translator is configured,
\* a success source note exists for the slide, and the slide has no usable
\* stored translation: no success entry, or force-retry on, or a stored note
\* equal to the source note verbatim.
C25_TranslateEntryCondition ==
    \A i \in Slides : Finished(i) =>
        translate_calls[i] =
            IF /\ language # "en" /\ translator_agent
               /\ i \in DOMAIN english_notes
               /\ \/ Entry0(i).status # "success"
                  \/ retry_errors
                  \/ Entry0(i).note = english_notes[i]
            THEN 1 ELSE 0

\* a target run over a ledger of an earlier target run: the slide whose stored
\* note is the source note is translated again, the slide with a stored
\* translation is not
C25_Witness ==
    /\ Finished(NSlides) /\ ~retry_errors
    /\ \E i, j \in Slides :
          /\ TranslationModeFor(i) /\ StoredSuccess(i) /\ StoredIsEnglish(i)
          /\ translate_calls[i] = 1
          /\ TranslationModeFor(j) /\ StoredSuccess(j) /\ ~StoredIsEnglish(j)
          /\ translate_calls[j] = 0

\* C26: when the drafting workflow of slide i yields no text, the note
\* recorded for the slide is a writer output stored during slide i's own
\* workflow, or nothing (status error); it is never a writer output left over
\* from another slide.
C26_FallbackFromOwnWorkflow ==
    \A i \in Slides : DraftedWithoutText(i) =>
        /\ slide_data[i].speaker_notes \in {WriterText(run, i), EmptyText}
        /\ \A j \in Slides \ {i} : slide_data[i].speaker_notes # WriterText(run, j)

\* Phase 2 handles a slide with notes status success in a target-locale run
\* that finds the source locale's visuals directory
TargetVisualStep ==
    /\ ppc = "p2" /\ slide_data[slide].status = "success" /\ ~skip_visuals
    /\ language # "en" /\ en_visuals_dir.exists

\* generate_visual was invoked for the slide handled by the step
Regenerated == visual_out'[slide] \in {"generated", "no bytes"}

\* the three cases of the decision, for the slide handled by the step
VisualDecision ==
    /\ slide \in visualFiles[language] =>
          /\ visual_calls'[slide] = 0 /\ image_translator_calls'[slide] = 0
          /\ visual_out'[slide] = "translated"
    /\ (slide \notin visualFiles[language] /\ slide \in en_visuals_dir.files) =>
          /\ image_translator_calls'[slide] = 1
          /\ visual_out'[slide] = "translated" => slide \in visualFiles'[language]
    /\ Regenerated =>
          /\ slide \notin visualFiles[language]
          /\ \/ slide \notin en_visuals_dir.files
             \/ image_translator_calls'[slide] = 1 /\ visual_calls'[slide] >= 1

SuccessBefore(i) == {j \in 1..(i - 1) : slide_data[j].status = "success"}

\* C28 as stated: the summary passed to the drafting request of slide i is the
\* first 200 characters of the final text of slide i - 1, and "Start of
\* presentation." for the first slide.
C28_SummaryOfPriorSlide ==
    ppc = "draft" =>
        previous_slide_summary =
            IF slide = 1 THEN StartOfPresentation
            ELSE Prefix(slide_data[slide - 1].speaker_notes, SummaryLen)

\* C28, amended: the summary passed to the drafting request of slide i is the
\* first 200 characters of the final text of the nearest preceding slide that
\* this run recorded with status success, and "Start of presentation." when
\* there is none; a slide recorded with status error does not advance it.
C28_RollingSummary ==
    ppc = "draft" =>
        /\ TextLen(previous_slide_summary) <= SummaryLen
        /\ previous_slide_summary =
              IF SuccessBefore(slide) = {} THEN StartOfPresentation
              ELSE LET j == CHOOSE n \in SuccessBefore(slide) :
                                \A m \in SuccessBefore(slide) : m <= n
                       t == slide_data[j].speaker_notes
                   IN IF TextLen(t) <= 200 THEN t ELSE <<"prefix", 200>> \o t

\* slide 2 is being drafted with the first 200 characters of slide 1's longer
\* note as summary
C28_Witness ==
    /\ ppc = "draft" /\ slide = 2
    /\ slide_data[1].status = "success"
    /\ TextLen(slide_data[1].speaker_notes) > 200
    /\ previous_slide_summary = <<"prefix", 200>> \o slide_data[1].speaker_notes

\* the note the in-memory ledger records for slide i under its current key
LedgerNote(i) == GetEntry(progress, create_slide_key(i, deck[i])).note

\* C29: after Phase 1 of a run, and as long as the deck is not edited, the
\* notes-only copy and the visuals copy of every slide with status success
\* hold the same notes, the note the ledger records for the slide, and the
\* notes of every slide with status error are those of the source deck in both
\* copies.
C29_CopiesHoldLedgerNote ==
    (/\ Phase1Complete /\ ppc \in {"p2", "p3", "p3_slides", "save", "done"}
     /\ touched = {}) =>
        \A i \in Slides :
            IF slide_data[i].status = "success"
            THEN /\ prs_notes[i] = prs_visuals[i]
                 /\ prs_notes[i] = LedgerNote(i)
                 /\ prs_notes[i] = slide_data[i].speaker_notes
            ELSE prs_notes[i] = deck[i] /\ prs_visuals[i] = deck[i]

\* slide j of this run has a visual artifact: image bytes were produced,
\* loaded or translated for it and its image file exists
HasArtifact(j) ==
    visual_out[j] \in {"generated", "translated"} /\ j \in visualFiles[language]

\* the artifact of the nearest slide before slide i that has one
NearestArtifact(i) ==
    LET P == {j \in Slides : j < i /\ HasArtifact(j)}
    IN IF P = {} THEN NoImage
       ELSE ImageOf(CHOOSE j \in P : \A k \in P : k <= j)

\* C30: whenever the designer is called for slide i, the style reference it
\* receives is the visual artifact of the nearest preceding slide of this run
\* that produced or loaded one, and there is none only if no preceding slide
\* has an artifact.
C30_StyleContextThreaded ==
    \A i \in Slides :
        designer_images[i] # <<>> => designer_images[i] = <<NearestArtifact(i)>>

\* C31: the poll loop of generate_video_with_image makes at most max_polls
\* polls, and when it stops with the operation not done the tool returns the
\* timeout error.
C31_PollingBounded ==
    /\ poll_count <= max_polls
    /\ (vpc = "returned" /\ ~operation.done /\ vresult # "exception")
           => vresult = "timeout"

\* C39: in the sample server, when the operation is done with a video at the
\* moment polling stops, the tool returns status success.
C39_DoneMeansSuccess ==
    (vpc = "returned" /\ server = "mcp_sample" /\ operation.done /\ operation.videos)
        => vresult = "success"

\* C32: under every interleaving of two runs the file at the ledger path is
\* the file the runs found or one complete document handed to some
\* save_progress call (never a torn one), and an entry one run persisted can be
\* gone after a later save of the other run.
C32_NeverTorn ==
    \/ ledger_path = initial_file
    \/ /\ ledger_path # Absent
       /\ ledger_path.body \in saved_docs

\* run 1 persisted its entry of slide 2, run 2 saved afterwards, and the file
\* no longer holds an entry for slide 2
C32_Witness ==
    /\ <<1, NSlides>> \in persisted
    /\ run_pc = [r \in Runs |-> "done"]
    /\ ledger_path # Absent
    /\ ledger_path.body \in saved_docs
    /\ ~RunLoadProgress(ledger_path)[NSlides].present
    /\ RunLoadProgress(ledger_path)[1] = EntryBy(2)

\* C33: every entry Phase 1 writes to the ledger and every slide record it
\* hands to Phase 2 and Phase 3 has status success or error, never pending.
C33_StatusSuccessOrError ==
    /\ \A i \in 1..Len(slide_data) : slide_data[i].status \in {"success", "error"}
    /\ \A k \in 1..Len(progress.slides) :
          progress.slides[k].status \in {"success", "error"}
    /\ \A l \in Locales : \A k \in 1..Len(ledgerFile[l].slides) :
          ledgerFile[l].slides[k].status \in {"success", "error"}

\* a slide went through three attempts that returned empty text or raised,
\* without a fallback, and another one got its note from the fallback
C33_Witness ==
    /\ Phase1Complete
    /\ \E i \in Slides : /\ draft_calls[i] = SupervisorMaxRetries
                         /\ slide_data[i].status = "error"
    /\ \E i \in Slides : /\ draft_calls[i] > 0
                         /\ slide_data[i].status = "success"
                         /\ slide_data[i].speaker_notes = WriterText(run, i)

C35_TranslatorFailureNotRecorded ==
    /\ \A i \in 1..Len(slide_data) :
          ~(slide_data[i].status = "success" /\ slide_data[i].speaker_notes = ErrorText)
    /\ \A k \in 1..Len(progress.slides) :
          ~(progress.slides[k].status = "success" /\ progress.slides[k].note = ErrorText)

\* the note of the source ledger's entry under slide i's current key
CurrentSourceNote(i) ==
    GetEntry(ledgerFile["en"], create_slide_key(i, deck[i])).note

\* C36: in a target-locale run the source note handed to the translator for
\* slide i is the note of the source ledger's entry under slide i's current
\* key, whatever other entries with the same slide index the ledger holds.
C36_SourceNoteOfCurrentKey ==
    language # "en" =>
        \A i \in Slides :
            translate_calls[i] > 0 => english_notes[i] = CurrentSourceNote(i)

\* C37: under force-retry, when a slide that had a success entry is processed
\* again and ends with status error, the ledger entry under its key keeps status
\* success and the note it had.
C37_FailedRetryKeepsResult ==
    (retry_errors /\ touched = {}) =>
        \A i \in Slides :
            (/\ Finished(i) /\ Entry0(i).status = "success"
             /\ slide_data[i].status = "error") =>
                /\ GetEntry(progress, create_slide_key(i, deck[i])).status = "success"
                /\ NoteAfter(i) = NoteBefore(i)

(***************************************************************************)
(* Runs of process() one after another on one deck, from an empty         *)
(* workspace and every configured output directory: the visuals a run of  *)
(* one locale leaves behind are what a later run of another locale finds. *)
(***************************************************************************)
ReuseRuns == 2

\* the image environment with a readable image library
ReuseVisualAnswers == {o \in VisualAnswers : o.pil_ok /\ o.load_ok}

InitReuse ==
    /\ RetryIdle /\ ArchIdle /\ PipeIdle /\ FileIdle /\ GenIdle /\ AuxIdle /\ CtxIdle
    /\ save_fails = FALSE /\ tool_factory = "stand-in" /\ notes_frame = Slides
    /\ output_dir \in OutputDirs
    /\ PipeEnv([i \in Slides |-> EmptyText], [l \in Locales |-> {}], NoVisualsDir)

NextReuse ==
    \/ /\ run < ReuseRuns
       /\ \E lang \in Locales, imgtr \in BOOLEAN, skip \in BOOLEAN :
             StartRun(lang, FALSE, FALSE, imgtr, skip, FALSE)
       /\ UNCHANGED <<retryVars, archVars, extVars>>
    \/ ProcessSlideNotes /\ UNCHANGED <<retryVars, archVars, extVars>>
    \/ /\ \E answer \in PlainDraftAnswers : DraftSlide(answer)
       /\ UNCHANGED <<retryVars, archVars, extVars>>
    \/ /\ \E o \in ReuseVisualAnswers : VisualSlide(o)
       /\ UNCHANGED <<retryVars, archVars, extVars>>
    \/ /\ \E ok \in BOOLEAN : VideoPhase(ok)
       /\ UNCHANGED <<retryVars, archVars, extVars>>
    \/ SaveOutputs /\ UNCHANGED <<retryVars, archVars, extVars>>

SpecReuse == InitReuse /\ [][NextReuse]_vars

\* the loop of Phase 2 of the current run is past slide i
Phase2Handled(i) ==
    \/ ppc \in {"p3", "p3_slides", "save", "done"}
    \/ ppc = "p2" /\ i < slide

\* C38: in a run of a target locale with an image translator, once the runs of
\* the source locale have left a visual for every slide, no slide with a
\* successful note gets its visual by direct generation without the translation
\* of the source visual having been tried
C38_SourceVisualsReused ==
    (/\ language # "en" /\ image_translator_agent /\ ~skip_visuals
     /\ visualFiles["en"] = Slides)
    => \A i \in Slides :
          (Phase2Handled(i) /\ visual_out[i] \in {"generated", "no bytes"})
          => image_translator_calls[i] = 1

\* the same statement for the output directory the reuse works with
C38_ReusedInDeckDirectory ==
    output_dir = "pptx_dir" => C38_SourceVisualsReused

\* C40: whatever the ledger file holds, the value load_progress returns is a
\* ledger with a slides map, so the lookup progress["slides"] of Phase 1 for
\* the first slide raises nothing
C40_LoadedIsLedger ==
    loaded # NotLoaded =>
        /\ loaded \in Ledgers
        /\ SlidesLookup(loaded) = "entry"

====
